---- MODULE Spec2Model ----
(***************************************************************************)
(* Model of flatland::DisplayCompositor                                    *)
(* (src/ui/scenic/lib/flatland/engine/display_compositor.cc).              *)
(*                                                                         *)
(* The variables are the fields of the DisplayCompositor object, the       *)
(* observable state of its three collaborators (renderer, display          *)
(* controller, release-fence manager) and a few history variables that     *)
(* record what the public operations did.  Every C++ method is an operator *)
(* that maps a record of the whole state to the record after the call; an  *)
(* action applies one public operation to the current state.               *)
(***************************************************************************)
EXTENDS Integers, Sequences, FiniteSets, TLC

(***************************************************************************)
(* Bounds of the model.                                                    *)
(***************************************************************************)
NumDisplays == 2
MaxCollections == 1
MaxImages == 2
MaxFrames == 3
MaxRenderTargets == 2
MaxRenderDataImages == 3

(***************************************************************************)
(* Program constants.                                                      *)
(***************************************************************************)
\* AddDisplay creates this many layers per display.
kNumLayers == 2
\* allocation::kInvalidImageId: the identifier of a solid-colour entry.
kInvalidImageId == 0
\* allocation::kInvalidId: the invalid collection id.
kInvalidId == 0

Displays == 1..NumDisplays
ImageIds == 1..MaxImages

ImportModes == {"RendererOnly", "EnforceDisplayConstraints", "AttemptDisplayConstraints"}
PixelFormats == {"BGRA32", "NV12", "I420"}

\* kDefaultColorConversion* is the identity; the other value is a client matrix.
kDefaultColorConversion == "identity"
ColorConversions == {kDefaultColorConversion, "M"}

\* std::nullopt, for an optional colour conversion and an optional config stamp.
None == "nullopt"
NullOpt == [has_value |-> FALSE, value |-> 0]
Some(v) == [has_value |-> TRUE, value |-> v]

VARIABLES
  import_mode_,
  kDisableDisplayComposition,
  display_info_map_,
  display_engine_data_map_,
  buffer_collection_supports_display_,
  buffer_collection_pixel_format_,
  display_buffer_collection_ptrs_,
  image_event_map_,
  pending_images_in_config_,
  pending_apply_configs_,
  last_presented_config_stamp_,
  cc_state_machine_,
  renderer_,
  display_controller_,
  release_fence_manager_,
  lock_,
  threads_,
  client_,
  calls,
  unguarded

vars == <<import_mode_, kDisableDisplayComposition, display_info_map_, display_engine_data_map_,
          buffer_collection_supports_display_, buffer_collection_pixel_format_,
          display_buffer_collection_ptrs_, image_event_map_, pending_images_in_config_,
          pending_apply_configs_, last_presented_config_stamp_, cc_state_machine_,
          renderer_, display_controller_, release_fence_manager_, lock_, threads_, client_,
          calls, unguarded>>

\* The whole state as one record, the argument and result of every method.
Self ==
  [import_mode_ |-> import_mode_,
   kDisableDisplayComposition |-> kDisableDisplayComposition,
   display_info_map_ |-> display_info_map_,
   display_engine_data_map_ |-> display_engine_data_map_,
   buffer_collection_supports_display_ |-> buffer_collection_supports_display_,
   buffer_collection_pixel_format_ |-> buffer_collection_pixel_format_,
   display_buffer_collection_ptrs_ |-> display_buffer_collection_ptrs_,
   image_event_map_ |-> image_event_map_,
   pending_images_in_config_ |-> pending_images_in_config_,
   pending_apply_configs_ |-> pending_apply_configs_,
   last_presented_config_stamp_ |-> last_presented_config_stamp_,
   cc_state_machine_ |-> cc_state_machine_,
   renderer_ |-> renderer_,
   display_controller_ |-> display_controller_,
   release_fence_manager_ |-> release_fence_manager_,
   lock_ |-> lock_,
   threads_ |-> threads_,
   client_ |-> client_,
   calls |-> calls,
   unguarded |-> unguarded,
   ret |-> TRUE]

Install(s) ==
  /\ import_mode_' = s.import_mode_
  /\ kDisableDisplayComposition' = s.kDisableDisplayComposition
  /\ display_info_map_' = s.display_info_map_
  /\ display_engine_data_map_' = s.display_engine_data_map_
  /\ buffer_collection_supports_display_' = s.buffer_collection_supports_display_
  /\ buffer_collection_pixel_format_' = s.buffer_collection_pixel_format_
  /\ display_buffer_collection_ptrs_' = s.display_buffer_collection_ptrs_
  /\ image_event_map_' = s.image_event_map_
  /\ pending_images_in_config_' = s.pending_images_in_config_
  /\ pending_apply_configs_' = s.pending_apply_configs_
  /\ last_presented_config_stamp_' = s.last_presented_config_stamp_
  /\ cc_state_machine_' = s.cc_state_machine_
  /\ renderer_' = s.renderer_
  /\ display_controller_' = s.display_controller_
  /\ release_fence_manager_' = s.release_fence_manager_
  /\ lock_' = s.lock_
  /\ threads_' = s.threads_
  /\ client_' = s.client_
  /\ calls' = s.calls
  /\ unguarded' = s.unguarded

(***************************************************************************)
(* Small helpers.                                                          *)
(***************************************************************************)
\* std::map::erase(key)
Erase(m, k) == [x \in (DOMAIN m) \ {k} |-> m[x]]

\* std::map::operator[]= (insert or assign)
Put(m, k, v) == [x \in (DOMAIN m) \cup {k} |-> IF x = k THEN v ELSE m[x]]

\* One call made to a collaborator, as recorded in |calls|.
Call(op, args) == [op |-> op, args |-> args]

\* std::scoped_lock lock(lock_), and the end of its scope.  lock_ is a std::mutex, which is
\* not recursive: a thread that locks it while holding it never gets it ("deadlock"), and
\* nothing it was going to do afterwards releases it.
Lock(s) == [s EXCEPT !.lock_ = IF @ = "free" THEN "held" ELSE "deadlock"]
Unlock(s) == [s EXCEPT !.lock_ = IF @ = "held" THEN "free" ELSE @]

\* A scope whose lock is still held when the code after it runs.
LockScopeNeverLeft(s) == Lock(s)

\* A scope that takes lock_ for a read or for one call whose result the model computes
\* where it is used: the layers of a display (488), CreateLayer (460), ImportEvent (868,
\* 890).
LockScope(s) == Unlock(Lock(s))

\* |n| such scopes, one after the other.
RECURSIVE LockScopes(_, _)
LockScopes(s, n) == IF n = 0 THEN s ELSE LockScopes(LockScope(s), n - 1)

\* |unguarded| collects what the running operation does while lock_ is free: the calls
\* it makes and the registries it writes.
Mutate(s, registry) ==
  [s EXCEPT !.unguarded = IF s.lock_ = "free" THEN @ \cup {registry} ELSE @]

Log(s, op, args) == [Mutate(s, op) EXCEPT !.calls = Append(@, Call(op, args))]

\* The positions of |calls| that hold a call of |op|.
CallsOf(cs, op) == {i \in 1..Len(cs) : cs[i].op = op}

(***************************************************************************)
(* ColorConversionStateMachine (cc_state_machine_).  States of the design: *)
(* Idle = ~dirty /\ ~dc_has_cc, Dirty(cc) = dirty, AppliedDirect(cc) =     *)
(* ~dirty /\ dc_has_cc.                                                    *)
(***************************************************************************)
CcInit == [data |-> kDefaultColorConversion, dirty |-> FALSE, dc_has_cc |-> FALSE]

\* set(cc): transitions to Dirty(cc).
CcSetData(cc, data) == [cc EXCEPT !.data = data, !.dirty = TRUE]

\* get_data_to_apply(): the data only when Dirty, otherwise nullopt.
CcGetDataToApply(cc) == IF cc.dirty THEN cc.data ELSE None

\* mark_applied_direct(): the direct path consumed the data.
CcSetApplyConfigSucceeded(cc) ==
  IF cc.dirty
  THEN [cc EXCEPT !.dirty = FALSE, !.dc_has_cc = (cc.data # kDefaultColorConversion)]
  ELSE cc

\* gpu_requires_display_clearing(): a non-identity matrix is on the display.
CcGpuRequiresDisplayClearing(cc) == cc.dc_has_cc

\* mark_display_cleared(): the display is neutral again, the GPU applies the data.
CcDisplayCleared(cc) == [cc EXCEPT !.dc_has_cc = FALSE, !.dirty = TRUE]

(***************************************************************************)
(* The display controller, as far as the compositor observes it: the       *)
(* staged (pending) and the applied configuration, the stamp of the latest *)
(* applied configuration and what has been imported.                       *)
(***************************************************************************)
\* What the controller keeps of a display's layers: the layer list, the signal events of
\* the images on the layers, and whether the list was set since the last discard or apply.
DcLayersInit == [fresh |-> FALSE, signal_ids |-> {}, ids |-> << >>]

DcConfigInit ==
  [layers |-> [d \in Displays |-> DcLayersInit],
   cc |-> [d \in Displays |-> kDefaultColorConversion]]

\* |retiring|: the signal events of replaced images that the controller has yet to signal;
\* |signaled|: how often the controller has signaled each event.
DcInit ==
  [pending |-> DcConfigInit,
   applied |-> DcConfigInit,
   checked |-> FALSE,
   stamp |-> 0,
   retiring |-> {},
   signaled |-> << >>,
   collections |-> {},
   images |-> {}]

\* CheckConfig(discard = true): the staged changes are dropped.
DcDiscard(dc) == [dc EXCEPT !.pending = dc.applied, !.checked = FALSE]

\* CheckConfig(discard = false) with the controller's verdict |ok|.
DcCheck(dc, ok) == [dc EXCEPT !.checked = ok]

\* SetDisplayLayers: the display's layer list, each layer still without content.
DcSetDisplayLayers(dc, display_id, layers) ==
  [dc EXCEPT !.pending.layers[display_id] =
               [fresh |-> TRUE, signal_ids |-> {}, ids |-> layers],
             !.checked = FALSE]

\* SetLayerImage or SetLayerColorConfig on a layer of |display_id|.
DcSetLayerContent(dc, display_id, signal_id) ==
  [dc EXCEPT !.pending.layers[display_id].signal_ids = @ \cup ({signal_id} \ {0}),
             !.checked = FALSE]

DcSetDisplayColorConversion(dc, display_id, cc) ==
  [dc EXCEPT !.pending.cc[display_id] = cc, !.checked = FALSE]

\* The signal events of the images that a new configuration replaces.
Retired(applied, pending) ==
  UNION {applied.layers[d].signal_ids : d \in {d \in Displays : pending.layers[d].fresh}}

\* ApplyConfig: the staged configuration becomes the applied one, under a new stamp.
\* The images it replaces are retired: the controller will signal their signal events.
DcApplyConfig(dc) ==
  LET config == [dc.pending EXCEPT !.layers =
                   [d \in Displays |-> [@[d] EXCEPT !.fresh = FALSE]]]
  IN [dc EXCEPT !.applied = config,
                !.pending = config,
                !.stamp = dc.stamp + 1,
                !.retiring = @ \cup Retired(dc.applied, dc.pending)]

\* The controller signals a retired image's event.
DcSignal(dc, id) ==
  [dc EXCEPT !.retiring = @ \ {id},
             !.signaled = Put(@, id, (IF id \in DOMAIN @ THEN @[id] ELSE 0) + 1)]

(***************************************************************************)
(* Identifiers handed out by the collaborators.  The code receives them    *)
(* from counters (CreateLayer, scenic_impl::ImportEvent,                   *)
(* GenerateUniqueImageId, GenerateUniqueBufferCollectionId); the model     *)
(* computes them from what they identify, which keeps them unique and      *)
(* different from 0, the invalid id.                                       *)
(***************************************************************************)
LayerId(display_id, i) == kNumLayers * (display_id - 1) + i

\* The display whose AddDisplay created the layer.
DisplayOfLayer(layer_id) == ((layer_id - 1) \div kNumLayers) + 1

ImageSignalId(image_id) == image_id + 1

FrameWaitId(display_id, k) ==
  MaxImages + 2 * (MaxRenderTargets * (display_id - 1) + k)

FrameSignalId(display_id, k) == FrameWaitId(display_id, k) + 1

\* The collection and the image ids of a display's render targets.
RenderTargetCollectionId(display_id, protected) ==
  MaxCollections + 2 * display_id - (IF protected THEN 0 ELSE 1)

RenderTargetImageId(display_id, protected, k) ==
  MaxImages + MaxRenderTargets * (2 * display_id - (IF protected THEN 0 ELSE 1) - 1) + k

(***************************************************************************)
(* Private methods of DisplayCompositor.                                   *)
(***************************************************************************)
\* A freshly created, pre-signaled event of an image.
NewImageEventData(image_id) ==
  [signal_event |-> TRUE, signal_id |-> ImageSignalId(image_id)]

\* A freshly created pair of events of a back-buffer: only signal_event is pre-signaled.
\* |cleared| remembers whether the last reset of the pair found wait_event signaled, and
\* |fence| the state <<wait_event, signal_event>> of the pair when its wait_event was last
\* handed to the renderer as the fence to signal (<< >>: never).
NewFrameEventData(display_id, k) ==
  [wait_event |-> FALSE, signal_event |-> TRUE, cleared |-> FALSE, fence |-> << >>,
   wait_id |-> FrameWaitId(display_id, k), signal_id |-> FrameSignalId(display_id, k)]

SetDisplayLayers(s, display_id, layers) ==
  Unlock(Log([Lock(s) EXCEPT !.display_controller_ = DcSetDisplayLayers(@, display_id, layers)],
             "SetDisplayLayers", <<display_id, Len(layers)>>))

ApplyLayerColor(s, layer_id, rectangle, image) ==
  Unlock(Log([Lock(s) EXCEPT !.display_controller_ =
                               DcSetLayerContent(@, DisplayOfLayer(layer_id), 0)],
             "SetLayerColorConfig", <<layer_id>>))

ApplyLayerImage(s, layer_id, rectangle, image, wait_id, signal_id) ==
  Unlock(Log([Lock(s) EXCEPT !.display_controller_ =
                               DcSetLayerContent(@, DisplayOfLayer(layer_id), signal_id)],
             "SetLayerImage", <<layer_id, image.identifier, wait_id, signal_id>>))

CheckConfig(s, ok) ==
  Unlock(Log([Lock(s) EXCEPT !.display_controller_ = DcCheck(@, ok), !.ret = ok],
             "CheckConfig", <<ok>>))

\* A discard that forgets to clear the images recorded for the configuration.
DiscardConfigKeepingImages(s) ==
  Unlock(Log([Lock(s) EXCEPT !.display_controller_ = DcDiscard(@)], "DiscardConfig", <<>>))

\* pending_images_in_config_ is cleared before the lock is taken.
DiscardConfig(s) ==
  LET s1 == [Mutate(s, "pending_images_in_config_") EXCEPT !.pending_images_in_config_ = <<>>]
  IN Unlock(Log([Lock(s1) EXCEPT !.display_controller_ = DcDiscard(@)], "DiscardConfig", <<>>))

\* Returns the stamp in |ret|.
ApplyConfig(s) ==
  LET dc == DcApplyConfig(s.display_controller_)
  IN Unlock(Log([Lock(s) EXCEPT !.display_controller_ = dc, !.ret = dc.stamp],
                "ApplyConfig", <<dc.stamp>>))

\* A check that takes every image for retired.
ImageNeverInUse(s, image_id) == FALSE

\* Whether the signal event of |image_id| exists and is not signaled.
ImageInUse(s, image_id) ==
  /\ image_id \in DOMAIN s.image_event_map_
  /\ ~s.image_event_map_[image_id].signal_event

\* The first loop of SetRenderDataOnDisplay, from entry |i| on.
RECURSIVE CollectPendingImages(_, _, _)
CollectPendingImages(s, images, i) ==
  IF i > Len(images) THEN [s EXCEPT !.ret = TRUE]
  ELSE LET image_id == images[i].identifier
       IN IF image_id \notin DOMAIN s.image_event_map_
          THEN CollectPendingImages(
                 [Mutate(Mutate(LockScope(s), "image_event_map_"), "pending_images_in_config_")
                    EXCEPT !.image_event_map_ = Put(@, image_id, NewImageEventData(image_id)),
                           !.pending_images_in_config_ = Append(@, image_id)],
                 images, i + 1)
          ELSE IF ImageInUse(s, image_id)
               THEN [s EXCEPT !.ret = FALSE]
               ELSE CollectPendingImages(
                      [Mutate(s, "pending_images_in_config_")
                         EXCEPT !.pending_images_in_config_ = Append(@, image_id)],
                      images, i + 1)

\* A lookup that takes an unknown collection for supported.
SupportsDisplayLookupDefaultYes(supports, collection_id) ==
  IF collection_id \in DOMAIN supports THEN supports ELSE Put(supports, collection_id, TRUE)

\* buffer_collection_supports_display_[collection_id]: operator[] inserts false.
SupportsDisplayLookup(supports, collection_id) ==
  IF collection_id \in DOMAIN supports THEN supports ELSE Put(supports, collection_id, FALSE)

\* A rule that takes a full-screen solid colour at any index.
SolidColorAcceptedAnywhere(i, rect, display_size) ==
  /\ rect.origin = <<0, 0>>
  /\ rect.extent = display_size

\* Whether a solid-colour rectangle at (0-based) index |i| may go to a colour layer.
SolidColorAccepted(i, rect, display_size) ==
  /\ i = 0
  /\ rect.origin = <<0, 0>>
  /\ rect.extent = display_size

\* The second loop of SetRenderDataOnDisplay, from entry |i| on.
RECURSIVE AssignLayers(_, _, _, _)
AssignLayers(s, data, layers, i) ==
  IF i > Len(data.images) THEN [s EXCEPT !.ret = TRUE]
  ELSE LET image == data.images[i]
           rect == data.rectangles[i]
       IN IF image.identifier # kInvalidImageId
          THEN LET supports == SupportsDisplayLookup(s.buffer_collection_supports_display_,
                                                     image.collection_id)
                   s1 == [(IF supports = s.buffer_collection_supports_display_ THEN s
                           ELSE Mutate(s, "buffer_collection_supports_display_"))
                            EXCEPT !.buffer_collection_supports_display_ = supports]
               IN IF supports[image.collection_id]
                  THEN AssignLayers(
                         ApplyLayerImage(s1, layers[i], rect, image, 0,
                                         s1.image_event_map_[image.identifier].signal_id),
                         data, layers, i + 1)
                  ELSE [s1 EXCEPT !.ret = FALSE]
          ELSE IF SolidColorAccepted(i - 1, rect, s.display_info_map_[data.display_id].dimensions)
               THEN AssignLayers(ApplyLayerColor(s, layers[i], rect, image), data, layers, i + 1)
               ELSE [s EXCEPT !.ret = FALSE]

SetRenderDataOnDisplay(s, data) ==
  LET num_images == Len(data.images)
      layers == s.display_engine_data_map_[data.display_id].layers
  IN IF Len(layers) < num_images THEN [LockScope(s) EXCEPT !.ret = FALSE]
     ELSE LET s1 == CollectPendingImages(LockScope(s), data.images, 1)
          IN IF ~s1.ret THEN s1
             ELSE AssignLayers(SetDisplayLayers(s1, data.display_id, SubSeq(layers, 1, num_images)),
                               data, layers, 1)

\* The direct-to-display colour conversion of SetRenderDatasOnDisplay.
ApplyDisplayColorConversion(s, display_id) ==
  LET cc_data == CcGetDataToApply(s.cc_state_machine_)
  IN IF cc_data # None
     THEN Log([s EXCEPT !.display_controller_ =
                          DcSetDisplayColorConversion(@, display_id, cc_data)],
              "SetDisplayColorConversion", <<display_id, cc_data>>)
     ELSE s

\* A loop that leaves a rejected display out and plans the others.
RECURSIVE SetRenderDatasLoopSkippingRejected(_, _, _)
SetRenderDatasLoopSkippingRejected(s, render_data_list, i) ==
  IF i > Len(render_data_list) THEN [s EXCEPT !.ret = TRUE]
  ELSE LET s1 == SetRenderDataOnDisplay(s, render_data_list[i])
       IN SetRenderDatasLoopSkippingRejected(
            IF s1.ret THEN ApplyDisplayColorConversion(s1, render_data_list[i].display_id)
            ELSE s1,
            render_data_list, i + 1)

RECURSIVE SetRenderDatasLoop(_, _, _)
SetRenderDatasLoop(s, render_data_list, i) ==
  IF i > Len(render_data_list) THEN [s EXCEPT !.ret = TRUE]
  ELSE LET s1 == SetRenderDataOnDisplay(s, render_data_list[i])
       IN IF ~s1.ret THEN s1
          ELSE SetRenderDatasLoop(ApplyDisplayColorConversion(s1, render_data_list[i].display_id),
                                  render_data_list, i + 1)

SetRenderDatasOnDisplay(s, render_data_list) ==
  IF s.kDisableDisplayComposition THEN [s EXCEPT !.ret = FALSE]
  ELSE SetRenderDatasLoop(s, render_data_list, 1)

(***************************************************************************)
(* The release-fence manager, as far as the compositor drives it: the      *)
(* frames handed over with their present callback, and the frames retired  *)
(* by OnVsync().                                                           *)
(***************************************************************************)
RfmInit == [registered |-> <<>>, retired |-> <<>>]

\* OnDirectScanoutFrame() or OnGpuCompositedFrame(): |path| tells which.
RfmRegister(rfm, frame_number, path) ==
  [rfm EXCEPT !.registered = Append(@, [frame_number |-> frame_number, path |-> path])]

\* OnVsync(frame_number, timestamp); the vsync's stamp stands for its timestamp.
RfmOnVsync(rfm, info, vsync_stamp) ==
  [rfm EXCEPT !.retired = Append(@, [frame_number |-> info.frame_number,
                                     config_stamp |-> info.config_stamp,
                                     vsync_stamp |-> vsync_stamp])]

(***************************************************************************)
(* PerformGpuComposition and RenderFrame.                                  *)
(***************************************************************************)
\* "Clear any past CC state here, before applying GPU CC."
ClearDisplayColorConversion(s, display_id) ==
  IF CcGpuRequiresDisplayClearing(s.cc_state_machine_)
  THEN Log([s EXCEPT !.display_controller_ =
                       DcSetDisplayColorConversion(@, display_id, kDefaultColorConversion),
                     !.cc_state_machine_ = CcDisplayCleared(@)],
           "SetDisplayColorConversion", <<display_id, kDefaultColorConversion>>)
  ELSE s

\* A cursor that runs off the ring.
NextVmoUnwrapped(curr_vmo, vmo_count) == curr_vmo + 1

\* A cursor that stays on its slot.
NextVmoStuck(curr_vmo, vmo_count) == curr_vmo

NextVmo(curr_vmo, vmo_count) == (curr_vmo + 1) % vmo_count

\* A verification that stays silent.
VerifyBackbufferRetiredSilently(s, display_id, curr_vmo, event_data) == s

\* "We expect the retired event to already have been signaled": logs an error if not.
VerifyBackbufferRetired(s, display_id, curr_vmo, event_data) ==
  IF ~event_data.signal_event
  THEN Log(s, "LogInUseBackbuffer", <<display_id, curr_vmo>>)
  ELSE s

\* A reset that forgets the event the renderer signals.
ResetFrameEventDataSignalOnly(event_data) ==
  [event_data EXCEPT !.signal_event = FALSE, !.cleared = event_data.wait_event]

\* "Reset the event data": both events are unsignaled.
ResetFrameEventData(event_data) ==
  [event_data EXCEPT !.wait_event = FALSE, !.signal_event = FALSE,
                     !.cleared = event_data.wait_event]

\* The pair of events whose wait_event is handed to the renderer, as the renderer finds it.
AsRenderFence(event_data) ==
  [event_data EXCEPT !.fence = <<event_data.wait_event, event_data.signal_event>>]

\* renderer_->Render with render_fences[0] = the wait_event of slot |fence_slot| of the
\* display, which the renderer signals when the drawing completes.
Render(s, display_id, curr_vmo, render_target, apply_cc, num_images, is_final_display, fence_slot) ==
  Log([s EXCEPT !.renderer_.fences = @ \cup {FrameWaitId(display_id, fence_slot + 1)},
                !.display_engine_data_map_[display_id].frame_event_datas[fence_slot + 1] =
                  AsRenderFence(@)],
      "Render", <<display_id, curr_vmo, render_target.identifier, apply_cc, num_images,
                  is_final_display>>)

\* An iteration that hands the controller the events of the first slot, whatever the slot.
GpuCompositeDisplayFirstSlotEvents(s, render_data, is_final_display, requires_protected, check_ok) ==
  LET display_id == render_data.display_id
      s1 == ClearDisplayColorConversion(s, display_id)
      data == s1.display_engine_data_map_[display_id]
  IN IF data.vmo_count = 0 THEN [s1 EXCEPT !.ret = FALSE]
     ELSE
       LET curr_vmo == data.curr_vmo
           render_targets == IF requires_protected THEN data.protected_render_targets
                             ELSE data.render_targets
           render_target == render_targets[curr_vmo + 1]
           event_data == data.frame_event_datas[1]
           s2 == [s1 EXCEPT !.display_engine_data_map_[display_id].curr_vmo =
                              NextVmo(curr_vmo, data.vmo_count)]
           s3 == VerifyBackbufferRetired(s2, display_id, curr_vmo, event_data)
           s4 == [s3 EXCEPT !.display_engine_data_map_[display_id]
                               .frame_event_datas[1] = ResetFrameEventData(@)]
           apply_cc == CcGetDataToApply(s4.cc_state_machine_) # None
           s5 == Render(s4, display_id, curr_vmo, render_target, apply_cc,
                        Len(render_data.images), is_final_display, 0)
           layer == data.layers[1]
           s6 == SetDisplayLayers(s5, display_id, <<layer>>)
           s7 == ApplyLayerImage(s6, layer, [origin |-> <<0, 0>>, extent |-> <<0, 0>>],
                                 render_target, event_data.wait_id, event_data.signal_id)
       IN CheckConfig(s7, check_ok)

\* One iteration of the loop of PerformGpuComposition; |check_ok| is CheckConfig's answer.
GpuCompositeDisplay(s, render_data, is_final_display, requires_protected, check_ok) ==
  LET display_id == render_data.display_id
      s1 == ClearDisplayColorConversion(s, display_id)
      data == s1.display_engine_data_map_[display_id]
  IN IF data.vmo_count = 0 THEN [s1 EXCEPT !.ret = FALSE]
     ELSE
       LET curr_vmo == data.curr_vmo
           render_targets == IF requires_protected THEN data.protected_render_targets
                             ELSE data.render_targets
           render_target == render_targets[curr_vmo + 1]
           event_data == data.frame_event_datas[curr_vmo + 1]
           s2 == [s1 EXCEPT !.display_engine_data_map_[display_id].curr_vmo =
                              NextVmo(curr_vmo, data.vmo_count)]
           s3 == VerifyBackbufferRetired(s2, display_id, curr_vmo, event_data)
           s4 == [s3 EXCEPT !.display_engine_data_map_[display_id]
                               .frame_event_datas[curr_vmo + 1] = ResetFrameEventData(@)]
           apply_cc == CcGetDataToApply(s4.cc_state_machine_) # None
           s5 == Render(s4, display_id, curr_vmo, render_target, apply_cc,
                        Len(render_data.images), is_final_display, curr_vmo)
           layer == data.layers[1]
           s6 == SetDisplayLayers(s5, display_id, <<layer>>)
           s7 == ApplyLayerImage(s6, layer, [origin |-> <<0, 0>>, extent |-> <<0, 0>>],
                                 render_target, event_data.wait_id, event_data.signal_id)
       IN CheckConfig(s7, check_ok)

\* A loop that goes on after a display failed, and reports success.
RECURSIVE GpuCompositionLoopIgnoringFailure(_, _, _, _, _)
GpuCompositionLoopIgnoringFailure(s, render_data_list, i, requires_protected, fail_at) ==
  IF i > Len(render_data_list) THEN [s EXCEPT !.ret = TRUE]
  ELSE GpuCompositionLoopIgnoringFailure(
         GpuCompositeDisplay(s, render_data_list[i], i = Len(render_data_list),
                             requires_protected, i # fail_at),
         render_data_list, i + 1, requires_protected, fail_at)

\* The loop of PerformGpuComposition; CheckConfig fails at iteration |fail_at| (0: never).
RECURSIVE GpuCompositionLoop(_, _, _, _, _)
GpuCompositionLoop(s, render_data_list, i, requires_protected, fail_at) ==
  IF i > Len(render_data_list) THEN [s EXCEPT !.ret = TRUE]
  ELSE LET s1 == GpuCompositeDisplay(s, render_data_list[i], i = Len(render_data_list),
                                     requires_protected, i # fail_at)
       IN IF ~s1.ret THEN s1
          ELSE GpuCompositionLoop(s1, render_data_list, i + 1, requires_protected, fail_at)

\* A PerformGpuComposition that hands the callback over before it knows the outcome.
PerformGpuCompositionNotifyingFirst(s, frame_number, render_data_list, protected, fail_at) ==
  LET s1 == GpuCompositionLoop(s, render_data_list, 1, protected, fail_at)
  IN Log([s1 EXCEPT !.release_fence_manager_ = RfmRegister(@, frame_number, "gpu")],
         "OnGpuCompositedFrame", <<frame_number>>)

PerformGpuComposition(s, frame_number, render_data_list, requires_protected, fail_at) ==
  LET s1 == GpuCompositionLoop(s, render_data_list, 1, requires_protected, fail_at)
  IN IF ~s1.ret THEN s1
     ELSE Log([s1 EXCEPT !.release_fence_manager_ = RfmRegister(@, frame_number, "gpu")],
              "OnGpuCompositedFrame", <<frame_number>>)

\* "Unsignal all imported images": every image of the configuration about to be applied.
RECURSIVE UnsignalPendingImages(_, _)
UnsignalPendingImages(s, i) ==
  IF i > Len(s.pending_images_in_config_) THEN s
  ELSE LET id == s.pending_images_in_config_[i]
       IN UnsignalPendingImages(
            Log([s EXCEPT !.image_event_map_ =
                   Put(@, id, [signal_event |-> FALSE,
                               signal_id |-> IF id \in DOMAIN @ THEN @[id].signal_id ELSE 0])],
                "UnsignalImageEvent", <<id>>),
            i + 1)

\* The direct-scanout branch of RenderFrame, up to the hand-over of the callback.
CommitDirectScanout(s, frame_number) ==
  LET s1 == [s EXCEPT !.cc_state_machine_ = CcSetApplyConfigSucceeded(@)]
      s2 == UnsignalPendingImages(s1, 1)
  IN Log([s2 EXCEPT !.release_fence_manager_ = RfmRegister(@, frame_number, "direct")],
         "OnDirectScanoutFrame", <<frame_number>>)

\* An enqueue that reads the stamp before the configuration is applied.
ApplyAndEnqueueStaleStamp(s, frame_number) ==
  LET s1 == ApplyConfig(s)
  IN [s1 EXCEPT !.pending_apply_configs_ =
                  Append(@, [config_stamp |-> s.display_controller_.stamp,
                             frame_number |-> frame_number])]

\* ApplyConfig and the push_back onto pending_apply_configs_.
ApplyAndEnqueue(s, frame_number) ==
  LET s1 == ApplyConfig(s)
  IN [s1 EXCEPT !.pending_apply_configs_ =
                  Append(@, [config_stamp |-> s1.ret, frame_number |-> frame_number])]

\* The end of the GPU branch of RenderFrame; |s| is the state PerformGpuComposition left,
\* its result in |ret|.
RenderFrameComposited(s, frame_number) ==
  IF ~s.ret THEN s
  ELSE [ApplyAndEnqueue(s, frame_number) EXCEPT !.ret = TRUE]

\* A direct-scanout branch that applies the configuration and enqueues the entry before it
\* unsignals the image events and hands the frame to the release-fence manager.
RenderFrameCommitApplyFirst(s, frame_number, render_data_list, in) ==
  LET fallback_to_gpu_composition == ~s.ret
  IN IF fallback_to_gpu_composition
     THEN RenderFrameComposited(
            PerformGpuComposition(DiscardConfig(s), frame_number, render_data_list,
                                  in.requires_protected, in.gpu_fail_at), frame_number)
     ELSE [CommitDirectScanout(ApplyAndEnqueue(s, frame_number), frame_number)
             EXCEPT !.ret = TRUE]

\* RenderFrame from the test of fallback_to_gpu_composition on; |s| is the state after the
\* direct configuration was staged and checked, |ret| telling whether it can be used.
RenderFrameCommit(s, frame_number, render_data_list, in) ==
  LET fallback_to_gpu_composition == ~s.ret
  IN IF fallback_to_gpu_composition
     THEN RenderFrameComposited(
            PerformGpuComposition(DiscardConfig(s), frame_number, render_data_list,
                                  in.requires_protected, in.gpu_fail_at),
            frame_number)
     ELSE [ApplyAndEnqueue(CommitDirectScanout(s, frame_number), frame_number)
             EXCEPT !.ret = TRUE]

\* RenderFrame from the CheckConfig of the direct configuration on; |s| is the state
\* SetRenderDatasOnDisplay left, its result in |ret|.
RenderFrameCheck(s, frame_number, render_data_list, in) ==
  LET hardware_failure == ~s.ret
  IN RenderFrameCommit(IF hardware_failure \/ s.kDisableDisplayComposition
                       THEN [s EXCEPT !.ret = FALSE]
                       ELSE CheckConfig(s, in.direct_check_ok),
                       frame_number, render_data_list, in)

\* |in|: the answers of the collaborators (direct_check_ok, requires_protected, gpu_fail_at).
\* |calls| restarts: it is the trace of this frame.
RenderFrame(s, frame_number, render_data_list, in) ==
  RenderFrameCheck(
    SetRenderDatasOnDisplay(DiscardConfig([s EXCEPT !.calls = <<>>, !.unguarded = {}]),
                            render_data_list),
    frame_number, render_data_list, in)

(***************************************************************************)
(* OnVsync.                                                                *)
(***************************************************************************)
\* A find_if that compares with >= : the first entry at least as new as the stamp.
VsyncFrameItAtLeast(q, applied_config_stamp) ==
  IF \E i \in 1..Len(q) : q[i].config_stamp >= applied_config_stamp
  THEN CHOOSE i \in 1..Len(q) :
         /\ q[i].config_stamp >= applied_config_stamp
         /\ \A j \in 1..(i - 1) : q[j].config_stamp < applied_config_stamp
  ELSE Len(q) + 1

\* std::find_if: the index of the first entry with the stamp, Len(q) + 1 for end().
VsyncFrameIt(q, applied_config_stamp) ==
  IF \E i \in 1..Len(q) : q[i].config_stamp = applied_config_stamp
  THEN CHOOSE i \in 1..Len(q) :
         /\ q[i].config_stamp = applied_config_stamp
         /\ \A j \in 1..(i - 1) : q[j].config_stamp # applied_config_stamp
  ELSE Len(q) + 1

\* A drain that retires the presented entry only, leaving the skipped ones queued.
DrainBeginAtMatch(q, vsync_frame_it) == vsync_frame_it

\* A drain that runs to the end of the queue.
DrainEndAtQueueEnd(q, vsync_frame_it) == Len(q) + 1

\* A drain that stops before the presented entry (std::next forgotten).
DrainEndBeforeMatch(q, vsync_frame_it) == vsync_frame_it

\* The range [begin, end) that OnVsync retires and erases.
DrainBegin(q, vsync_frame_it) == 1

DrainEnd(q, vsync_frame_it) == vsync_frame_it + 1

RECURSIVE RetireAll(_, _, _, _, _)
RetireAll(rfm, q, it, end, vsync_stamp) ==
  IF it >= end THEN rfm
  ELSE RetireAll(RfmOnVsync(rfm, q[it], vsync_stamp), q, it + 1, end, vsync_stamp)

IsRepeatedVsync(last_presented, applied_config_stamp) ==
  /\ last_presented.has_value
  /\ applied_config_stamp = last_presented.value

OnVsync(s, applied_config_stamp) ==
  IF IsRepeatedVsync(s.last_presented_config_stamp_, applied_config_stamp) THEN s
  ELSE LET q == s.pending_apply_configs_
           vsync_frame_it == VsyncFrameIt(q, applied_config_stamp)
       IN IF vsync_frame_it = Len(q) + 1 THEN s
          ELSE LET begin == DrainBegin(q, vsync_frame_it)
                   end == DrainEnd(q, vsync_frame_it)
               IN [s EXCEPT !.release_fence_manager_ =
                              RetireAll(@, q, begin, end, applied_config_stamp),
                            !.pending_apply_configs_ =
                              SubSeq(q, 1, begin - 1) \o SubSeq(q, end, Len(q)),
                            !.last_presented_config_stamp_ = Some(applied_config_stamp)]

(***************************************************************************)
(* OnVsync and the end of RenderFrame statement by statement, for a vsync  *)
(* callback that runs on another thread than RenderFrame.  Neither takes   *)
(* lock_.  |threads_.vsync| is the position of the thread inside OnVsync   *)
(* with its locals (|remaining|: the distance from |it| to |end|);         *)
(* |threads_.frame| is the position of the thread that has returned from   *)
(* ApplyConfig and not yet pushed the entry.                               *)
(***************************************************************************)
\* The early exit for a repeated stamp.
OnVsyncEnter(s, applied_config_stamp) ==
  IF IsRepeatedVsync(s.last_presented_config_stamp_, applied_config_stamp) THEN s
  ELSE [s EXCEPT !.threads_.vsync = [pc |-> "find", remaining |-> 0, raced |-> FALSE,
                                     applied_config_stamp |-> applied_config_stamp]]

\* std::find_if and the test against end(); |it| and |end| are set.
OnVsyncFind(s) ==
  LET q == s.pending_apply_configs_
      vsync_frame_it == VsyncFrameIt(q, s.threads_.vsync.applied_config_stamp)
  IN IF vsync_frame_it = Len(q) + 1
     THEN [s EXCEPT !.threads_.vsync.pc = "idle"]
     ELSE [s EXCEPT !.threads_.vsync.pc = "drain",
                    !.threads_.vsync.remaining =
                      DrainEnd(q, vsync_frame_it) - DrainBegin(q, vsync_frame_it)]

\* One iteration of the while loop: the head of the FIFO is retired and erased.
OnVsyncDrain(s) ==
  LET q == s.pending_apply_configs_
  IN [s EXCEPT !.release_fence_manager_ =
                 RfmOnVsync(@, q[1], s.threads_.vsync.applied_config_stamp),
               !.pending_apply_configs_ = Tail(q),
               !.threads_.vsync.remaining = @ - 1]

\* The exit of the loop and the update of last_presented_config_stamp_.
OnVsyncFinish(s) ==
  [s EXCEPT !.last_presented_config_stamp_ = Some(s.threads_.vsync.applied_config_stamp),
            !.threads_.vsync.pc = "idle"]

\* Line 789.  A push_back while OnVsync holds iterators into the FIFO invalidates them.
RenderFramePushBack(s) ==
  [s EXCEPT !.pending_apply_configs_ =
              Append(@, [config_stamp |-> s.threads_.frame.config_stamp,
                         frame_number |-> s.threads_.frame.frame_number]),
            !.threads_.frame.pc = "idle",
            !.threads_.vsync.raced = (s.threads_.vsync.pc = "drain")]

(***************************************************************************)
(* Buffer collections and images.                                          *)
(***************************************************************************)
\* A validation that accepts an image without rows.
IsValidBufferImageAnyHeight(metadata) ==
  /\ metadata.identifier # 0
  /\ metadata.collection_id # kInvalidId
  /\ metadata.width # 0

IsValidBufferImage(metadata) ==
  /\ metadata.identifier # 0
  /\ metadata.collection_id # kInvalidId
  /\ ~(metadata.width = 0 \/ metadata.height = 0)

\* A test that knows one YUV format only.
IsYUVOnlyNV12(format) == format = "NV12"

IsYUV(format) == format \in {"NV12", "I420"}

\* |allocated|: whether the collection's buffers are allocated with the display's
\* constraints (CheckBuffersAllocated); |format|: the pixel format sysmem reports.
DetermineDisplaySupportFor(allocated, format) ==
  IF ~allocated THEN None
  ELSE IF IsYUV(format) THEN None
  ELSE format

\* |fail|: the first collaborator call to fail ("none": all succeed).
ImportBufferCollection(s, collection_id, fail) ==
  IF fail = "duplicate" THEN [s EXCEPT !.ret = FALSE]
  ELSE IF fail = "renderer" THEN [s EXCEPT !.ret = FALSE]
  ELSE LET s1 == [s EXCEPT !.renderer_.collections = @ \cup {collection_id}]
       IN IF s.import_mode_ = "RendererOnly" THEN [s1 EXCEPT !.ret = TRUE]
          ELSE IF s.import_mode_ = "AttemptDisplayConstraints" /\ fail = "attach"
               THEN [s1 EXCEPT !.ret = FALSE]
          ELSE IF fail = "ptr" THEN [s1 EXCEPT !.ret = FALSE]
          ELSE LET s2 == [s1 EXCEPT !.display_buffer_collection_ptrs_ = @ \cup {collection_id}]
               IN IF fail = "display" THEN [LockScope(s2) EXCEPT !.ret = FALSE]
                  ELSE Unlock([Lock(s2) EXCEPT !.display_controller_.collections =
                                                  @ \cup {collection_id},
                                                !.ret = TRUE])

\* The whole function runs under the lock.
ReleaseBufferCollection(s, collection_id) ==
  Unlock([Mutate(Lock(s), "buffer_collection_supports_display_")
            EXCEPT !.display_controller_.collections = @ \ {collection_id},
                   !.renderer_.collections = @ \ {collection_id},
                   !.display_buffer_collection_ptrs_ = @ \ {collection_id},
                   !.buffer_collection_supports_display_ = Erase(@, collection_id)])

\* An import that never exits early.
RendererOnlyNeverExits(import_mode, display_support_already_set, supports, collection_id) ==
  FALSE

\* The condition of the early exit of ImportBufferImage in RendererOnly mode.
RendererOnlyEarlyExit(import_mode, display_support_already_set, supports, collection_id) ==
  /\ import_mode = "RendererOnly"
  /\ (~display_support_already_set \/ ~supports[collection_id])

\* A probe that runs on every import, whatever was recorded before.
ProbeDisplaySupportAlways(s, collection_id, display_support_already_set, allocated, format) ==
  LET pixel_format == DetermineDisplaySupportFor(allocated, format)
  IN [Log(s, "DetermineDisplaySupportFor", <<collection_id, allocated, format>>)
        EXCEPT !.display_buffer_collection_ptrs_ = @ \ {collection_id},
               !.buffer_collection_supports_display_ =
                 Put(@, collection_id, pixel_format # None),
               !.buffer_collection_pixel_format_ =
                 IF pixel_format # None THEN Put(@, collection_id, pixel_format) ELSE @]

\* "if (!display_support_already_set)": takes the observation handle and records the answer.
ProbeDisplaySupport(s, collection_id, display_support_already_set, allocated, format) ==
  IF ~display_support_already_set
  THEN LET pixel_format == DetermineDisplaySupportFor(allocated, format)
       IN [Mutate(Log(s, "DetermineDisplaySupportFor", <<collection_id, allocated, format>>),
                  "buffer_collection_supports_display_")
             EXCEPT !.display_buffer_collection_ptrs_ = @ \ {collection_id},
                    !.buffer_collection_supports_display_ =
                      Put(@, collection_id, pixel_format # None),
                    !.buffer_collection_pixel_format_ =
                      IF pixel_format # None THEN Put(@, collection_id, pixel_format) ELSE @]
  ELSE s

\* A policy that falls back to the renderer in every mode.
UnsupportedImportAlwaysOk(import_mode) == TRUE

\* The switch on import_mode_ for a collection the display does not support.
UnsupportedImportResult(import_mode) == import_mode = "AttemptDisplayConstraints"

\* |in|: the answers of the collaborators (renderer_ok, allocated, format, display_ok).
ImportBufferImage(s, metadata, in) ==
  IF ~IsValidBufferImage(metadata) THEN [s EXCEPT !.ret = FALSE]
  ELSE IF ~in.renderer_ok THEN [s EXCEPT !.ret = FALSE]
  ELSE LET s1 == [s EXCEPT !.renderer_.images = @ \cup {metadata.identifier}]
           collection_id == metadata.collection_id
           display_support_already_set ==
             collection_id \in DOMAIN s1.buffer_collection_supports_display_
       IN IF RendererOnlyEarlyExit(s1.import_mode_, display_support_already_set,
                                   s1.buffer_collection_supports_display_, collection_id)
          THEN [Mutate(s1, "buffer_collection_supports_display_")
                  EXCEPT !.buffer_collection_supports_display_ = Put(@, collection_id, FALSE),
                         !.ret = TRUE]
          ELSE LET s2 == ProbeDisplaySupport(s1, collection_id, display_support_already_set,
                                             in.allocated, in.format)
               IN IF ~s2.buffer_collection_supports_display_[collection_id]
                  THEN [s2 EXCEPT !.ret = UnsupportedImportResult(s2.import_mode_)]
                  ELSE LET s3 == Unlock(Log(Lock(s2), "ImportImage2",
                                     <<metadata.identifier, collection_id, in.display_ok>>))
                       IN IF in.display_ok
                          THEN [s3 EXCEPT !.display_controller_.images =
                                            @ \cup {metadata.identifier},
                                          !.ret = TRUE]
                          ELSE [s3 EXCEPT !.ret = FALSE]

\* The FX_DCHECK of TakeDisplayBufferCollectionPtr, where ImportBufferImage reaches it.
TakeDisplayBufferCollectionPtrOk(s, collection_id) ==
  \/ s.import_mode_ = "RendererOnly"
  \/ collection_id \in DOMAIN s.buffer_collection_supports_display_
  \/ collection_id \in s.display_buffer_collection_ptrs_

\* "Locks the rest of the function."
ReleaseBufferImage(s, image_id) ==
  Unlock([Mutate(Lock(s), "image_event_map_")
            EXCEPT !.display_controller_.images = @ \ {image_id},
                   !.renderer_.images = @ \ {image_id},
                   !.image_event_map_ = Erase(@, image_id)])

(***************************************************************************)
(* AddDisplay, AllocateDisplayRenderTargets and SetColorConversionValues.  *)
(***************************************************************************)
RenderTargetMetadata(display_id, protected, k, size) ==
  [identifier |-> RenderTargetImageId(display_id, protected, k),
   collection_id |-> RenderTargetCollectionId(display_id, protected),
   width |-> size[1], height |-> size[2]]

\* Render targets come from a collection allocated with the display's constraints.
TargetImportAnswers ==
  [renderer_ok |-> TRUE, allocated |-> TRUE, format |-> "BGRA32", display_ok |-> TRUE]

RECURSIVE ImportRenderTargets(_, _, _, _, _, _)
ImportRenderTargets(s, display_id, protected, num_render_targets, size, k) ==
  IF k > num_render_targets THEN s
  ELSE ImportRenderTargets(
         ImportBufferImage(s, RenderTargetMetadata(display_id, protected, k, size),
                           TargetImportAnswers),
         display_id, protected, num_render_targets, size, k + 1)

AllocateDisplayRenderTargets(s, display_id, use_protected_memory, num_targets, size, format) ==
  LET collection_id == RenderTargetCollectionId(display_id, use_protected_memory)
      s1 == [Mutate(s, "buffer_collection_supports_display_")
               EXCEPT !.renderer_.collections = @ \cup {collection_id},
                      !.display_controller_.collections = @ \cup {collection_id},
                      !.buffer_collection_supports_display_ = Put(@, collection_id, TRUE),
                      !.buffer_collection_pixel_format_ = Put(@, collection_id, format)]
  IN ImportRenderTargets(s1, display_id, use_protected_memory, num_targets, size, 1)

RenderTargets(display_id, protected, num_render_targets, size) ==
  [k \in 1..num_render_targets |-> RenderTargetMetadata(display_id, protected, k, size)]

\* |created|: whether the display controller creates the layer.  A failure is logged and
\* 0 is returned.
CreateDisplayLayer(display_id, i, created) == IF created THEN LayerId(display_id, i) ELSE 0

\* |created[i]|: the display controller's answer to the i-th CreateLayer.
AddDisplay(s, display_id, info, num_render_targets, supports_protected, created) ==
  LET layers == [i \in 1..kNumLayers |-> CreateDisplayLayer(display_id, i, created[i])]
      empty == [layers |-> layers, vmo_count |-> 0, curr_vmo |-> 0,
                frame_event_datas |-> <<>>, render_targets |-> <<>>,
                protected_render_targets |-> <<>>]
      s1 == [LockScopes(s, kNumLayers)
               EXCEPT !.display_info_map_ = Put(@, display_id, info),
                      !.display_engine_data_map_ = Put(@, display_id, empty)]
  IN IF num_render_targets = 0 THEN s1
     ELSE LET s2 == AllocateDisplayRenderTargets(s1, display_id, FALSE, num_render_targets,
                                                 info.dimensions, info.format)
              s3 == [LockScopes(s2, num_render_targets)
                       EXCEPT !.display_engine_data_map_[display_id] =
                       [@ EXCEPT !.render_targets =
                                   RenderTargets(display_id, FALSE, num_render_targets,
                                                 info.dimensions),
                                 !.frame_event_datas =
                                   [k \in 1..num_render_targets |->
                                      NewFrameEventData(display_id, k)],
                                 !.vmo_count = num_render_targets,
                                 !.curr_vmo = 0]]
          IN IF supports_protected
             THEN [AllocateDisplayRenderTargets(s3, display_id, TRUE, num_render_targets,
                                                info.dimensions, info.format)
                     EXCEPT !.display_engine_data_map_[display_id].protected_render_targets =
                              RenderTargets(display_id, TRUE, num_render_targets,
                                            info.dimensions)]
             ELSE s3

\* "Lock the whole function."
SetColorConversionValues(s, data) ==
  Unlock([Lock(s) EXCEPT !.cc_state_machine_ = CcSetData(@, data),
                         !.renderer_.color_conversion = data])

\* |ok|: whether the display controller accepts the value.  No lock is taken.
SetMinimumRgb(s, minimum_rgb, ok) ==
  [Log(s, "SetMinimumRgb", <<minimum_rgb>>) EXCEPT !.ret = ok]

(***************************************************************************)
(* The display controller signals the event of a retired image.            *)
(***************************************************************************)
SignalEvent(s, id) ==
  [s EXCEPT !.display_controller_ = DcSignal(@, id),
            !.image_event_map_ =
              [i \in DOMAIN @ |-> IF @[i].signal_id = id
                                  THEN [@[i] EXCEPT !.signal_event = TRUE]
                                  ELSE @[i]],
            !.display_engine_data_map_ =
              [d \in DOMAIN @ |->
                 [@[d] EXCEPT !.frame_event_datas =
                    [k \in 1..Len(@) |-> IF @[k].signal_id = id
                                         THEN [@[k] EXCEPT !.signal_event = TRUE]
                                         ELSE @[k]]]]]

\* The renderer completes a drawing and signals the fence it was given.
SignalFence(s, id) ==
  [s EXCEPT !.renderer_.fences = @ \ {id},
            !.display_engine_data_map_ =
              [d \in DOMAIN @ |->
                 [@[d] EXCEPT !.frame_event_datas =
                    [k \in 1..Len(@) |-> IF @[k].wait_id = id
                                         THEN [@[k] EXCEPT !.wait_event = TRUE]
                                         ELSE @[k]]]]]

(***************************************************************************)
(* The inputs of the operations.                                           *)
(***************************************************************************)
DisplayInfos == {[dimensions |-> <<2, 1>>, format |-> "BGRA32"]}

\* The display controller's answers to the CreateLayer calls of one AddDisplay.
LayerAnswers == [1..kNumLayers -> BOOLEAN]

LayersCreated == {[i \in 1..kNumLayers |-> TRUE]}

FullRect(display_size) == [origin |-> <<0, 0>>, extent |-> display_size]

PartialRect(display_size) ==
  [origin |-> <<0, 0>>, extent |-> <<display_size[1] - 1, display_size[2]>>]

\* A solid-colour rectangle carries the invalid image id.
SolidColorImage ==
  [identifier |-> kInvalidImageId, collection_id |-> kInvalidId, width |-> 1, height |-> 1]

\* What a client may put into a frame: its live images and solid-colour rectangles.
ImageEntries(display_id) ==
  {[image |-> client_.images[i], rect |-> FullRect(display_info_map_[display_id].dimensions)] :
     i \in DOMAIN client_.images}

SolidColorEntries(display_id) ==
  LET size == display_info_map_[display_id].dimensions
  IN {[image |-> SolidColorImage, rect |-> r] : r \in {FullRect(size), PartialRect(size)}}

SeqsUpTo(S, n) == UNION {[1..k -> S] : k \in 0..n}

\* The RenderData of |display_id| with up to |n| entries drawn from |entries|.
RenderDatas(display_id, entries, n) ==
  {[display_id |-> display_id,
    images |-> [i \in 1..Len(es) |-> es[i].image],
    rectangles |-> [i \in 1..Len(es) |-> es[i].rect]] : es \in SeqsUpTo(entries, n)}

\* Frames of client images, for one of the added displays.
ImageLists(n) ==
  UNION {{<<data>> : data \in RenderDatas(d, ImageEntries(d), n)} :
           d \in DOMAIN display_engine_data_map_}

\* Frames of solid-colour rectangles for every added display, in display order.
AllDisplayLists(n) ==
  LET added == DOMAIN display_engine_data_map_
  IN {l \in [1..Cardinality(added) ->
               UNION {RenderDatas(d, SolidColorEntries(d), n) : d \in added}] :
        \A i \in 1..Len(l) : l[i].display_id = i}

\* The collaborators' answers a frame can meet: the controller accepts or rejects the
\* direct configuration, and on the GPU path the |gpu_fail_at|-th CheckConfig fails.
\* Protected rendering is required only where protected render targets exist.
FrameAnswers(render_data_list) ==
  LET planned == SetRenderDatasOnDisplay(Self, render_data_list).ret
      protected_ok ==
        \A i \in 1..Len(render_data_list) :
          LET data == display_engine_data_map_[render_data_list[i].display_id]
          IN Len(data.protected_render_targets) = data.vmo_count /\ data.vmo_count > 0
      gpu == {in \in [direct_check_ok : {FALSE}, requires_protected : BOOLEAN,
                      gpu_fail_at : 0..Len(render_data_list)] :
                in.requires_protected => protected_ok}
  IN IF planned
     THEN gpu \cup {[direct_check_ok |-> TRUE, requires_protected |-> FALSE, gpu_fail_at |-> 0]}
     ELSE gpu

ValidImageMetadatas ==
  {[identifier |-> client_.next_image_id, collection_id |-> c, width |-> 1, height |-> 1] :
     c \in client_.collections}

InvalidImageMetadatas ==
  {[identifier |-> 0, collection_id |-> 1, width |-> 1, height |-> 1],
   [identifier |-> client_.next_image_id, collection_id |-> kInvalidId,
    width |-> 1, height |-> 1],
   [identifier |-> client_.next_image_id, collection_id |-> 1, width |-> 0, height |-> 1],
   [identifier |-> client_.next_image_id, collection_id |-> 1, width |-> 1, height |-> 0]}

ImageAnswers ==
  [renderer_ok : BOOLEAN, allocated : BOOLEAN, format : PixelFormats, display_ok : BOOLEAN]

CollectionFailures == {"none", "duplicate", "renderer", "attach", "ptr", "display"}

\* No thread is inside OnVsync, and none is between lines 788 and 789 of RenderFrame.
ThreadsIdle ==
  [vsync |-> [pc |-> "idle", applied_config_stamp |-> 0, remaining |-> 0, raced |-> FALSE],
   frame |-> [pc |-> "idle", config_stamp |-> 0, frame_number |-> 0]]

\* |disabled|: the values of kDisableDisplayComposition the builds under study have.
InitBuild(import_modes, disabled) ==
  /\ import_mode_ \in import_modes
  /\ kDisableDisplayComposition \in disabled
  /\ display_info_map_ = << >>
  /\ display_engine_data_map_ = << >>
  /\ buffer_collection_supports_display_ = << >>
  /\ buffer_collection_pixel_format_ = << >>
  /\ display_buffer_collection_ptrs_ = {}
  /\ image_event_map_ = << >>
  /\ pending_images_in_config_ = << >>
  /\ pending_apply_configs_ = << >>
  /\ last_presented_config_stamp_ = NullOpt
  /\ cc_state_machine_ = CcInit
  /\ renderer_ = [collections |-> {}, images |-> {}, fences |-> {},
                  color_conversion |-> kDefaultColorConversion]
  /\ display_controller_ = DcInit
  /\ release_fence_manager_ = RfmInit
  /\ lock_ = "free"
  /\ threads_ = ThreadsIdle
  /\ unguarded = {}
  /\ client_ = [next_frame_number |-> 1, frames |-> << >>,
                next_collection_id |-> 1, collections |-> {}, released |-> {},
                next_image_id |-> 1, images |-> << >>, imports |-> << >>,
                probed |-> << >>,
                frame |-> << >>, attempt |-> << >>]
  /\ calls = << >>

(***************************************************************************)
(* Actions: one per public operation, plus the controller's callbacks.     *)
(* Each takes the sets its inputs are drawn from.  |calls| holds the calls *)
(* of the last RenderFrame, or the last vsync callback, and is empty after *)
(* any other operation; |client_.frame| holds the render_data_list of the  *)
(* RenderFrame that was the last operation, and is empty otherwise;        *)
(* |client_.attempt| holds the metadata and the result of the              *)
(* ImportBufferImage that was the last operation, when the metadata was    *)
(* not one of a new image of a collection of the client.                   *)
(***************************************************************************)
Done(s) ==
  Install([s EXCEPT !.calls = << >>, !.client_.frame = << >>, !.client_.attempt = << >>])

\* The state in which an operation starts: nothing is done without the lock yet.
Enter == [Self EXCEPT !.unguarded = {}]

ImportBufferCollectionAction(failures) ==
  \E fail \in failures :
    /\ client_.next_collection_id <= MaxCollections
    /\ LET id == client_.next_collection_id
           s == ImportBufferCollection(Enter, id, fail)
       IN Done([s EXCEPT !.client_.next_collection_id = id + 1,
                         !.client_.collections = IF s.ret THEN @ \cup {id} ELSE @])

ReleaseBufferCollectionAction ==
  \E id \in client_.collections :
    Done([ReleaseBufferCollection(Enter, id) EXCEPT !.client_.collections = @ \ {id},
                                                   !.client_.released = @ \cup {id}])

\* What sysmem answered where the import probed a collection: its pixel format, or
\* None for buffers that are not allocated.
ProbedAfter(probed, cs) ==
  LET probes == CallsOf(cs, "DetermineDisplaySupportFor")
  IN IF probes = {} THEN probed
     ELSE LET args == cs[CHOOSE i \in probes : TRUE].args
          IN Put(probed, args[1], IF args[2] THEN args[3] ELSE None)

\* Whether the import reached the display controller, and with which status.
DisplayImportStatus(cs) ==
  LET imports == CallsOf(cs, "ImportImage2")
  IN IF imports = {} THEN "not called"
     ELSE IF cs[CHOOSE i \in imports : TRUE].args[3] THEN "ZX_OK" ELSE "error"

\* The client numbers its images, keeps the metadata of those imported, and remembers
\* of each import of a valid image its collection, what the call returned and what the
\* display controller answered, and what sysmem answered about each collection.
ImportBufferImageAction(metadatas, answers) ==
  \E metadata \in metadatas, in \in answers :
    /\ client_.next_image_id <= MaxImages
    /\ IsValidBufferImage(metadata) => TakeDisplayBufferCollectionPtrOk(Self, metadata.collection_id)
    /\ LET r == ImportBufferImage([Enter EXCEPT !.calls = << >>], metadata, in)
           s == [r EXCEPT !.client_.probed = ProbedAfter(@, r.calls)]
           import == [collection_id |-> metadata.collection_id, ret |-> s.ret,
                      display_status |-> DisplayImportStatus(r.calls)]
           attempt == IF metadata \in ValidImageMetadatas
                      THEN << >>
                      ELSE <<[metadata |-> metadata, ret |-> s.ret]>>
           t == IF s.ret
                THEN [s EXCEPT !.client_.next_image_id = @ + 1,
                               !.client_.imports = Append(@, import),
                               !.client_.images = Put(@, metadata.identifier, metadata)]
                ELSE IF IsValidBufferImage(metadata)
                     THEN [s EXCEPT !.client_.next_image_id = @ + 1,
                                    !.client_.imports = Append(@, import)]
                     ELSE s
       IN Install([t EXCEPT !.calls = << >>, !.client_.frame = << >>,
                            !.client_.attempt = attempt])

ReleaseBufferImageAction ==
  \E id \in DOMAIN client_.images :
    Done([ReleaseBufferImage(Enter, id) EXCEPT !.client_.images = Erase(@, id)])

\* Displays are added in order, before the first frame.
AddDisplayAction(displays, targets, protecteds, createds) ==
  \E display_id \in displays, info \in DisplayInfos, num_render_targets \in targets,
     supports_protected \in protecteds, created \in createds :
    /\ display_id \notin DOMAIN display_engine_data_map_
    /\ \A d \in 1..(display_id - 1) : d \in DOMAIN display_engine_data_map_
    /\ client_.next_frame_number = 1
    /\ Done(AddDisplay(Enter, display_id, info, num_render_targets, supports_protected,
                        created))

\* The client images a frame names.
ImagesOf(render_data_list) ==
  UNION {{render_data_list[i].images[j].identifier :
            j \in 1..Len(render_data_list[i].images)} : i \in 1..Len(render_data_list)}
    \ {kInvalidImageId}

\* The client submits frames with increasing frame numbers and remembers, of each,
\* whether it was applied, under which stamp, and with which images.
RenderFrameAction(render_data_lists) ==
  \E render_data_list \in render_data_lists :
    \E in \in FrameAnswers(render_data_list) :
      /\ client_.next_frame_number <= MaxFrames
      /\ LET frame_number == client_.next_frame_number
             s == RenderFrame(Self, frame_number, render_data_list, in)
         IN Install([s EXCEPT !.client_.next_frame_number = frame_number + 1,
                              !.client_.frame = render_data_list,
                              !.client_.attempt = << >>,
                              !.client_.frames =
                                Append(@, [applied |-> s.ret,
                                           config_stamp |-> IF s.ret
                                                            THEN s.display_controller_.stamp
                                                            ELSE 0,
                                           images |-> ImagesOf(render_data_list)])])

\* The vsync callback, with any of the |stamps|; |calls| keeps the callback.
OnVsyncAction(stamps) ==
  \E applied_config_stamp \in stamps :
    Install([OnVsync(Self, applied_config_stamp)
               EXCEPT !.calls = <<Call("OnVsync", <<applied_config_stamp>>)>>,
                      !.unguarded = {},
                      !.client_.frame = << >>,
                      !.client_.attempt = << >>])

\* The stamps a vsync may carry: those the controller has handed out, and one of
\* another client (0).
Stamps == 0..display_controller_.stamp

\* RenderFrame up to the return of ApplyConfig (line 788); a dropped frame returns.
RenderFrameUntilApplyAction(render_data_lists) ==
  \E render_data_list \in render_data_lists :
    \E in \in FrameAnswers(render_data_list) :
      /\ client_.next_frame_number <= MaxFrames
      /\ threads_.frame.pc = "idle"
      /\ LET frame_number == client_.next_frame_number
             s == RenderFrame(Self, frame_number, render_data_list, in)
         IN Install([s EXCEPT !.client_.next_frame_number = frame_number + 1,
                              !.client_.frame = render_data_list,
                              !.client_.attempt = << >>,
                              !.pending_apply_configs_ = pending_apply_configs_,
                              !.threads_.frame =
                                IF s.ret
                                THEN [pc |-> "push_back", frame_number |-> frame_number,
                                      config_stamp |-> s.display_controller_.stamp]
                                ELSE @])

RenderFramePushBackAction ==
  /\ threads_.frame.pc = "push_back"
  /\ Install(RenderFramePushBack(Self))

OnVsyncEnterAction(stamps) ==
  \E applied_config_stamp \in stamps :
    /\ threads_.vsync.pc = "idle"
    /\ Install(OnVsyncEnter(Self, applied_config_stamp))

OnVsyncFindAction ==
  /\ threads_.vsync.pc = "find"
  /\ Install(OnVsyncFind(Self))

\* The distance from |it| to |end| that the loop test sees: the one computed by
\* OnVsyncFind or, once a push_back has invalidated the iterators, any.
Remaining ==
  IF threads_.vsync.raced THEN 0..Len(pending_apply_configs_) ELSE {threads_.vsync.remaining}

OnVsyncDrainAction ==
  \E remaining \in Remaining :
    /\ threads_.vsync.pc = "drain"
    /\ remaining > 0
    /\ Install(OnVsyncDrain([Self EXCEPT !.threads_.vsync.remaining = remaining]))

OnVsyncFinishAction ==
  \E remaining \in Remaining :
    /\ threads_.vsync.pc = "drain"
    /\ remaining = 0
    /\ Install(OnVsyncFinish([Self EXCEPT !.threads_.vsync.remaining = remaining,
                                          !.threads_.vsync.raced = FALSE]))

SetColorConversionValuesAction ==
  \E data \in ColorConversions : Done(SetColorConversionValues(Enter, data))

\* |calls| keeps the call to the display controller.
SetMinimumRgbAction ==
  \E minimum_rgb \in {0, 255}, ok \in BOOLEAN :
    Install([SetMinimumRgb([Enter EXCEPT !.calls = << >>], minimum_rgb, ok)
               EXCEPT !.client_.frame = << >>, !.client_.attempt = << >>])

RendererSignalsFence ==
  \E id \in renderer_.fences : Done(SignalFence(Enter, id))

ControllerSignalsEvent ==
  \E id \in display_controller_.retiring : Done(SignalEvent(Enter, id))

(***************************************************************************)
(* Spec: frames and vsyncs on one display.  The client renders frames of   *)
(* solid-colour rectangles, which go to the display directly, through the  *)
(* GPU, or fail; vsyncs and fence signals arrive in any order.             *)
(***************************************************************************)
InitWith(import_modes) == InitBuild(import_modes, {FALSE})

Init == InitWith({"AttemptDisplayConstraints"})

SolidColorLists(n) ==
  UNION {{<<data>> : data \in RenderDatas(d, SolidColorEntries(d), n)} :
           d \in DOMAIN display_engine_data_map_}

Next ==
  \/ AddDisplayAction({1}, 0..MaxRenderTargets, {FALSE}, LayersCreated)
  \/ RenderFrameAction(SolidColorLists(kNumLayers))
  \/ OnVsyncAction(Stamps)
  \/ ControllerSignalsEvent

Spec == Init /\ [][Next]_vars

\* SpecVsync: Spec, with the fairness the display gives: it keeps delivering vsyncs
\* that carry the stamp of the latest applied configuration.
SpecVsync == Spec /\ WF_vars(OnVsyncAction({display_controller_.stamp}))

\* What the release-fence manager and the client have seen so far.
registered == release_fence_manager_.registered
retired == release_fence_manager_.retired
frames == client_.frames

\* C1: FIFO retirement order. Frames are retired in strictly increasing frame-number
\* order, which is the order in which their entries were enqueued (increasing stamps).
FifoRetirementOrder ==
  \A i, j \in 1..Len(retired) :
    i < j => /\ retired[i].frame_number < retired[j].frame_number
             /\ retired[i].config_stamp < retired[j].config_stamp

\* Three frames were retired, the first two by the same vsync.
FifoRetirementOrderWitness ==
  /\ Len(retired) = 3
  /\ retired[1].vsync_stamp = retired[2].vsync_stamp
  /\ retired[2].vsync_stamp < retired[3].vsync_stamp

\* C2 as stated: a frame is retired only by a vsync that carries its own stamp.
RetiredByOwnStamp ==
  \A i \in 1..Len(retired) : retired[i].vsync_stamp = retired[i].config_stamp

\* C2, amended: a frame is retired only by a vsync that carries its own stamp or the
\* stamp of a configuration applied after it (by a later frame).
RetiredByOwnOrLaterStamp ==
  \A i \in 1..Len(retired) :
    \E n \in retired[i].frame_number..Len(frames) :
      /\ frames[n].applied
      /\ frames[n].config_stamp = retired[i].vsync_stamp
      /\ frames[n].config_stamp >= retired[i].config_stamp

\* A frame was retired by the vsync of a later frame.
RetiredByLaterStampWitness ==
  \E i \in 1..Len(retired) : retired[i].vsync_stamp > retired[i].config_stamp

\* C3: an ignored vsync changes nothing. A vsync whose stamp equals the last presented
\* stamp, or matches no entry of the queue, retires no frame and leaves the queue and
\* the last presented stamp as they were.
IgnoredVsyncChangesNothing ==
  [][(/\ Len(calls') = 1
      /\ calls'[1].op = "OnVsync"
      /\ \/ last_presented_config_stamp_ = Some(calls'[1].args[1])
         \/ \A i \in 1..Len(pending_apply_configs_) :
              pending_apply_configs_[i].config_stamp # calls'[1].args[1])
     => UNCHANGED <<release_fence_manager_, pending_apply_configs_,
                    last_presented_config_stamp_>>]_vars

\* A vsync was ignored while frames were queued: its stamp is not the presented one.
IgnoredVsyncWitness ==
  /\ Len(calls) = 1
  /\ calls[1].op = "OnVsync"
  /\ last_presented_config_stamp_.has_value
  /\ last_presented_config_stamp_.value # calls[1].args[1]
  /\ Len(pending_apply_configs_) > 0

\* How often frame |n| occurs in a sequence of the release-fence manager.
Occurrences(seq, n) == Cardinality({i \in 1..Len(seq) : seq[i].frame_number = n})

\* C4: the present callback of a frame that is applied is handed to the release-fence
\* manager exactly once and the frame is retired at most once; the callback of a frame
\* that fails is not handed over and the frame is never retired.
CallbackExactlyOnce ==
  \A n \in 1..Len(frames) :
    /\ Occurrences(registered, n) = (IF frames[n].applied THEN 1 ELSE 0)
    /\ Occurrences(retired, n) <= (IF frames[n].applied THEN 1 ELSE 0)

\* A frame failed between a direct and a GPU-composited frame, which were both retired.
CallbackExactlyOnceWitness ==
  /\ \E n \in 1..Len(frames) : ~frames[n].applied
  /\ \E i, j \in 1..Len(registered) :
       /\ registered[i].path = "direct" /\ registered[j].path = "gpu"
       /\ Occurrences(retired, registered[i].frame_number) = 1
       /\ Occurrences(retired, registered[j].frame_number) = 1

Enqueued(n) ==
  \E i \in 1..Len(pending_apply_configs_) : pending_apply_configs_[i].frame_number = n

\* C5: eventual retirement. Every entry of the queue is eventually removed from it
\* and its frame retired, if vsyncs with the latest applied stamp keep arriving.
EventualRetirement ==
  \A n \in 1..MaxFrames : Enqueued(n) ~> (~Enqueued(n) /\ Occurrences(retired, n) = 1)

\* Every frame was applied, and the queue has drained.
EventualRetirementWitness ==
  /\ \A n \in 1..MaxFrames : n <= Len(frames) /\ frames[n].applied
  /\ Len(retired) = MaxFrames
  /\ pending_apply_configs_ = << >>

\* A step that is a RenderFrame call; |calls'| is its trace.
RenderFrameStep == client_.next_frame_number' # client_.next_frame_number

\* The indices of the Render calls of a trace.
Renders(cs) == CallsOf(cs, "Render")

\* Whether the signal event of the slot that Render call |c| draws into was signaled
\* when the frame began.
SlotWasSignaled(c) ==
  display_engine_data_map_[c.args[1]].frame_event_datas[c.args[2] + 1].signal_event

\* C7 as stated: the renderer is never handed a back-buffer whose slot's signal_event
\* is unsignaled.
RenderedSlotsWereSignaled ==
  [][RenderFrameStep => \A i \in Renders(calls') : SlotWasSignaled(calls'[i])]_vars

\* C7, amended: the renderer is handed a back-buffer whose slot's signal_event is
\* unsignaled only after the error "rendering into in-use backbuffer" was logged for
\* that slot, and the error is logged for no slot whose signal_event is signaled.
InUseSlotsRenderedAfterErrorLog ==
  [][RenderFrameStep =>
       \A i \in Renders(calls') :
         ~SlotWasSignaled(calls'[i])
           <=> \E j \in 1..(i - 1) :
                 calls'[j] = Call("LogInUseBackbuffer",
                                  <<calls'[i].args[1], calls'[i].args[2]>>)]_vars

\* The last frame rendered into a back-buffer after logging that it was in use.
InUseSlotRenderedWitness ==
  /\ \E i \in 1..Len(calls) : calls[i].op = "LogInUseBackbuffer"
  /\ Renders(calls) # {}

(***************************************************************************)
(* SpecImages: frames of client images on one display.  The client imports *)
(* a collection and images, whose allocation the display accepts or not,   *)
(* and renders frames of them while the controller signals fences.         *)
(***************************************************************************)
FrameImageAnswers == [renderer_ok : {TRUE}, allocated : BOOLEAN, format : {"BGRA32"},
                      display_ok : {TRUE}]

NextImages ==
  \/ ImportBufferCollectionAction({"none"})
  \/ ImportBufferImageAction(ValidImageMetadatas, FrameImageAnswers)
  \/ ReleaseBufferImageAction
  \/ AddDisplayAction({1}, 1..MaxRenderTargets, {FALSE}, LayersCreated)
  \/ RenderFrameAction(ImageLists(MaxRenderDataImages))
  \/ ControllerSignalsEvent

SpecImages == Init /\ [][NextImages]_vars

\* The direct-scanout frames that used image |i|, and the controller's signals of its event.
DirectFramesOf(i) ==
  {k \in 1..Len(registered) :
     /\ registered[k].path = "direct"
     /\ i \in frames[registered[k].frame_number].images}

SignalsOf(i) ==
  IF ImageSignalId(i) \in DOMAIN display_controller_.signaled
  THEN display_controller_.signaled[ImageSignalId(i)]
  ELSE 0

\* Every direct-scanout frame of image |i| but the last was followed by one signal.
OneSignalPerDirectFrame(i) ==
  LET n == Cardinality(DirectFramesOf(i))
  IN SignalsOf(i) \in {n - 1, n} \cap Nat

\* The images of the frame of a RenderFrame step whose event was unsignaled before it.
InUseImagesOfFrame ==
  {i \in frames'[Len(frames')].images :
     i \in DOMAIN image_event_map_ /\ ~image_event_map_[i].signal_event}

\* C6: at most one in-flight frame per image. Between two successive direct-scanout
\* frames that use an image the controller signals its event exactly once, and a frame
\* that names an image whose event is unsignaled is not applied as direct scanout but
\* goes to the renderer.
OneInFlightFramePerImage ==
  [][/\ \A i \in ImageIds : OneSignalPerDirectFrame(i)'
     /\ (RenderFrameStep /\ InUseImagesOfFrame # {})
          => /\ \A k \in 1..Len(calls') : calls'[k].op # "OnDirectScanoutFrame"
             /\ Renders(calls') # {}]_vars

\* An image went to the display twice, one signal apart, and in between a frame that
\* named it while it was in use was composited by the GPU.
OneInFlightFramePerImageWitness ==
  \E i \in ImageIds :
    /\ Cardinality(DirectFramesOf(i)) = 2
    /\ SignalsOf(i) = 1
    /\ \E k \in 1..Len(registered) :
         registered[k].path = "gpu" /\ i \in frames[registered[k].frame_number].images

(***************************************************************************)
(* SpecColor: colour conversion on every display.  The client sets colour  *)
(* conversion values between frames that cover all displays.               *)
(***************************************************************************)
NextColor ==
  \/ AddDisplayAction(Displays, {1}, {FALSE}, LayersCreated)
  \/ SetColorConversionValuesAction
  \/ RenderFrameAction(AllDisplayLists(1))
  \/ ControllerSignalsEvent

SpecColor == Init /\ [][NextColor]_vars

\* The latest frame was applied as direct scanout.
LastFrameDirect ==
  /\ Len(registered) > 0
  /\ registered[Len(registered)] = [frame_number |-> Len(frames), path |-> "direct"]

\* C8: colour-conversion parity. When the latest frame was direct scanout and left a
\* non-identity colour conversion on a display, a GPU-composited frame that follows
\* installs the identity conversion on that display before it invokes the renderer
\* for it, and invokes the renderer with apply_cc = true.
ColorConversionParity ==
  [][(RenderFrameStep /\ LastFrameDirect) =>
       \A i \in Renders(calls') :
         display_controller_.applied.cc[calls'[i].args[1]] # kDefaultColorConversion
           => /\ \E j \in 1..(i - 1) :
                   calls'[j] = Call("SetDisplayColorConversion",
                                    <<calls'[i].args[1], kDefaultColorConversion>>)
              /\ calls'[i].args[4]]_vars

(***************************************************************************)
(* SpecBuffers: buffer collections and images in each import mode, with    *)
(* every answer of the collaborators.                                      *)
(***************************************************************************)
InitBuffers == InitWith(ImportModes)

NextBuffers ==
  \/ ImportBufferCollectionAction(CollectionFailures)
  \/ ReleaseBufferCollectionAction
  \/ ImportBufferImageAction(ValidImageMetadatas, ImageAnswers)
  \/ ReleaseBufferImageAction
  \/ AddDisplayAction({1}, {0, 1}, BOOLEAN, LayersCreated)
  \/ RenderFrameAction(ImageLists(1))

SpecBuffers == InitBuffers /\ [][NextBuffers]_vars

\* C9: display-support monotonicity. Once the display-supported state of a collection
\* is set, to yes or to no, no import of an image and no frame changes it; only the
\* release of the collection removes it.
DisplaySupportMonotonic ==
  [][\A id \in DOMAIN buffer_collection_supports_display_ :
       \/ /\ id \in DOMAIN buffer_collection_supports_display_'
          /\ buffer_collection_supports_display_'[id] = buffer_collection_supports_display_[id]
       \/ /\ id \in client_.collections
          /\ id \notin client_'.collections]_vars

\* Two images were imported into a collection that the display supports, without the
\* compositor importing into the display on its own.
DisplaySupportMonotonicWitness ==
  \E id \in client_.collections :
    /\ id \in DOMAIN buffer_collection_supports_display_
    /\ buffer_collection_supports_display_[id]
    /\ Cardinality({i \in DOMAIN client_.images : client_.images[i].collection_id = id}) = 2

\* C10: a collection has a recorded pixel format iff its display-supported state is
\* yes, and nothing is kept of a released collection: no pixel format, no
\* display-supported entry, no observation handle.
PixelFormatIffDisplaySupported ==
  /\ \A id \in DOMAIN buffer_collection_pixel_format_ \cup
               DOMAIN buffer_collection_supports_display_ :
       id \in DOMAIN buffer_collection_pixel_format_
         <=> /\ id \in DOMAIN buffer_collection_supports_display_
             /\ buffer_collection_supports_display_[id]
  /\ \A id \in client_.released :
       /\ id \notin DOMAIN buffer_collection_pixel_format_
       /\ id \notin DOMAIN buffer_collection_supports_display_
       /\ id \notin display_buffer_collection_ptrs_

\* The collections that sysmem reported as allocated in a YUV format when probed.
ProbedYUV == {c \in DOMAIN client_.probed : client_.probed[c] \in {"NV12", "I420"}}

ImagesOfCollections(cs) == {i \in DOMAIN client_.images : client_.images[i].collection_id \in cs}

\* C11: YUV filter. A collection whose probed pixel format is NV12 or I420, its buffers
\* being allocated, is never display-supported, and no image of it is imported into the
\* display controller or set on a layer by a frame.
YUVNeverOnDisplay ==
  /\ \A c \in ProbedYUV :
       /\ c \in DOMAIN buffer_collection_supports_display_
            => ~buffer_collection_supports_display_[c]
       /\ c \notin DOMAIN buffer_collection_pixel_format_
  /\ ImagesOfCollections(ProbedYUV) \cap display_controller_.images = {}
  /\ \A k \in CallsOf(calls, "SetLayerImage") :
       calls[k].args[2] \notin ImagesOfCollections(ProbedYUV)

\* An image of a collection probed as I420 was imported and named by a frame, which the
\* renderer composited.
YUVNeverOnDisplayWitness ==
  \E i \in ImagesOfCollections(ProbedYUV) :
    /\ client_.probed[client_.images[i].collection_id] = "I420"
    /\ client_.frame # << >>
    /\ i \in ImagesOf(client_.frame)
    /\ CallsOf(calls, "Render") # {}

\* An ImportBufferImage call with valid metadata: the client's image counter advances.
ImportBufferImageStep == client_'.next_image_id = client_.next_image_id + 1

\* C12: import-mode policy. An import whose renderer leg succeeded, of a collection whose
\* display-supported state is or is probed to be no, returns ok in Attempt mode and an
\* error in Enforce mode, in both without importing the image into the display
\* controller; when the state is yes the image is imported into the display controller
\* and the status of that import decides the result.
ImportModePolicy ==
  [][ImportBufferImageStep =>
       LET id == client_.next_image_id
           import == client_'.imports[id]
           supported == buffer_collection_supports_display_'[import.collection_id]
       IN (id \in renderer_'.images /\ import_mode_ # "RendererOnly") =>
            IF ~supported
            THEN /\ import.display_status = "not called"
                 /\ id \notin display_controller_'.images
                 /\ import_mode_ = "AttemptDisplayConstraints" => import.ret
                 /\ import_mode_ = "EnforceDisplayConstraints" => ~import.ret
            ELSE /\ import.display_status # "not called"
                 /\ import.ret <=> import.display_status = "ZX_OK"
                 /\ import.ret <=> id \in display_controller_'.images]_vars

\* In Enforce mode two imports of a collection that the display does not support, the
\* first one probing it, passed the renderer and returned an error.
ImportModePolicyWitness ==
  /\ import_mode_ = "EnforceDisplayConstraints"
  /\ \E i, j \in DOMAIN client_.imports :
       /\ i < j
       /\ client_.imports[i].collection_id = client_.imports[j].collection_id
       /\ {i, j} \subseteq renderer_.images
       /\ client_.imports[i].collection_id \in DOMAIN buffer_collection_supports_display_
       /\ ~buffer_collection_supports_display_[client_.imports[i].collection_id]
       /\ ~client_.imports[i].ret /\ ~client_.imports[j].ret

\* C13 (as stated): in RendererOnly mode every collection is marked display-supported = no
\* from the return of its ImportBufferCollection onward, the display controller holds
\* nothing of it, and no image of it is imported into the display controller.
RendererOnlyMarkedAtImport ==
  import_mode_ = "RendererOnly" =>
    /\ \A c \in client_.collections :
         /\ c \in DOMAIN buffer_collection_supports_display_
         /\ ~buffer_collection_supports_display_[c]
         /\ c \notin display_controller_.collections
         /\ c \notin display_buffer_collection_ptrs_
    /\ \A i \in DOMAIN client_.imports :
         /\ client_.imports[i].display_status = "not called"
         /\ i \notin display_controller_.images

\* C13 (amended): in RendererOnly mode ImportBufferCollection hands nothing of the
\* collection to the display controller and leaves its display-supported state unknown;
\* the first ImportBufferImage that passes the renderer marks it no.  From the return of
\* ImportBufferCollection onward the state is unknown or no, never yes, and no image of
\* the collection is imported into the display controller.
RendererOnlyNeverSupported ==
  import_mode_ = "RendererOnly" =>
    /\ \A c \in client_.collections :
         /\ c \in DOMAIN buffer_collection_supports_display_
              => ~buffer_collection_supports_display_[c]
         /\ c \notin display_controller_.collections
         /\ c \notin display_buffer_collection_ptrs_
    /\ \A i \in DOMAIN client_.imports :
         /\ client_.imports[i].display_status = "not called"
         /\ i \notin display_controller_.images
         /\ (i \in renderer_.images /\ client_.imports[i].collection_id \in client_.collections)
              => client_.imports[i].collection_id \in DOMAIN buffer_collection_supports_display_

\* In RendererOnly mode a collection was imported and is still unknown, while the display
\* controller holds the render targets of a display.
RendererOnlyNeverSupportedWitness ==
  /\ import_mode_ = "RendererOnly"
  /\ display_controller_.images # {}
  /\ \E c \in client_.collections :
       /\ c \in renderer_.collections
       /\ c \notin DOMAIN buffer_collection_supports_display_

\* The collections whose ImportBufferCollection returned an error.
FailedCollections ==
  (1..(client_.next_collection_id - 1)) \ (client_.collections \cup client_.released)

\* C14: import rollback. After an ImportBufferCollection or ImportBufferImage that returned
\* an error, the renderer holds neither the collection nor the image, and the compositor
\* and the display controller hold nothing of them.
ImportRollback ==
  /\ \A c \in FailedCollections :
       /\ c \notin renderer_.collections
       /\ c \notin display_buffer_collection_ptrs_
       /\ c \notin display_controller_.collections
  /\ \A i \in DOMAIN client_.imports :
       ~client_.imports[i].ret =>
         /\ i \notin renderer_.images
         /\ i \notin display_controller_.images

\* The positions of the calls of a RenderFrame trace made after it fell back to GPU
\* composition, that is, after its second DiscardConfig.
GpuPhase(cs) ==
  LET discards == CallsOf(cs, "DiscardConfig")
  IN IF Cardinality(discards) < 2 THEN {}
     ELSE {k \in 1..Len(cs) : \E d \in discards : d > 1 /\ d < k}

FellBackToGpu(cs) == Cardinality(CallsOf(cs, "DiscardConfig")) = 2

\* The GPU fallback of the frame of this step failed: a display of the frame has no
\* render target, or a CheckConfig of the GPU path failed.
GpuFallbackFailed ==
  /\ RenderFrameStep
  /\ FellBackToGpu(calls')
  /\ \/ \E i \in 1..Len(client_'.frame) :
          display_engine_data_map_[client_'.frame[i].display_id].vmo_count = 0
     \/ \E k \in GpuPhase(calls') : calls'[k] = Call("CheckConfig", <<FALSE>>)

\* C15: a GPU fallback that fails drops the frame. RenderFrame then returns without
\* ApplyConfig, without an entry in pending_apply_configs_, and without handing the
\* frame to the release-fence manager.
FailedGpuFallbackDropsFrame ==
  [][GpuFallbackFailed =>
       /\ CallsOf(calls', "ApplyConfig") = {}
       /\ CallsOf(calls', "OnGpuCompositedFrame") = {}
       /\ CallsOf(calls', "OnDirectScanoutFrame") = {}
       /\ pending_apply_configs_' = pending_apply_configs_
       /\ release_fence_manager_' = release_fence_manager_
       /\ display_controller_'.stamp = display_controller_.stamp
       /\ ~frames'[Len(frames')].applied]_vars

\* While an earlier frame waits in the FIFO, the renderer drew a frame whose
\* configuration the display controller then rejected.
FailedGpuFallbackDropsFrameWitness ==
  /\ Len(frames) > 1
  /\ ~frames[Len(frames)].applied
  /\ Renders(calls) # {}
  /\ calls[Len(calls)] = Call("CheckConfig", <<FALSE>>)
  /\ pending_apply_configs_ # << >>

\* The Render calls of a trace for |display_id|.
RendersOf(cs, display_id) == {k \in Renders(cs) : cs[k].args[1] = display_id}

MisplacedSolidColor(data, j) ==
  /\ data.images[j].identifier = kInvalidImageId
  /\ \/ j > 1
     \/ data.rectangles[j].origin # <<0, 0>>
     \/ data.rectangles[j].extent # display_info_map_[data.display_id].dimensions

\* C17: solid-colour geometry rule. A solid-colour entry is set on a colour layer only as
\* the first entry of its RenderData, with origin (0, 0) and the extent of the display; a
\* frame with a solid colour at a later index or of another geometry is not applied as
\* direct scanout and falls back to GPU composition.
SolidColorGeometryRule ==
  [][RenderFrameStep =>
       \A i \in 1..Len(client_'.frame) :
         LET data == client_'.frame[i]
             layers == display_engine_data_map_[data.display_id].layers
         IN /\ \A k \in CallsOf(calls', "SetLayerColorConfig") :
                 DisplayOfLayer(calls'[k].args[1]) = data.display_id
                   => /\ calls'[k].args[1] = layers[1]
                      /\ ~MisplacedSolidColor(data, 1)
            /\ (\E j \in 1..Len(data.images) : MisplacedSolidColor(data, j))
                 => /\ CallsOf(calls', "OnDirectScanoutFrame") = {}
                    /\ FellBackToGpu(calls')]_vars

\* A frame of two full-screen solid colours was drawn by the renderer, after its first
\* colour had been set on a layer.
SolidColorGeometryRuleWitness ==
  /\ client_.frame # << >>
  /\ Len(client_.frame[1].images) = 2
  /\ \A j \in 1..2 : /\ client_.frame[1].images[j].identifier = kInvalidImageId
                      /\ ~MisplacedSolidColor(client_.frame[1], 1)
  /\ CallsOf(calls, "SetLayerColorConfig") # {}
  /\ Renders(calls) # {}

\* Whether the display-supported state of |collection_id| is yes.
DisplaySupported(collection_id) ==
  /\ collection_id \in DOMAIN buffer_collection_supports_display_
  /\ buffer_collection_supports_display_[collection_id]

\* C18: an image whose collection is not display-supported = yes when the frame is
\* submitted (the state is no, unknown, or the collection was released) is not set on a
\* display layer; the frame is not applied as direct scanout and falls back to GPU
\* composition.
UnsupportedImagesGoToGpu ==
  [][RenderFrameStep =>
       \A i \in 1..Len(client_'.frame) :
         \A j \in 1..Len(client_'.frame[i].images) :
           LET image == client_'.frame[i].images[j]
           IN (image.identifier # kInvalidImageId /\ ~DisplaySupported(image.collection_id))
                => /\ \A k \in CallsOf(calls', "SetLayerImage") :
                        calls'[k].args[2] # image.identifier
                   /\ CallsOf(calls', "OnDirectScanoutFrame") = {}
                   /\ FellBackToGpu(calls')]_vars

\* A frame named an image of a released collection; the planner read the missing state
\* as no, and the renderer drew the frame.
UnsupportedImagesGoToGpuWitness ==
  /\ client_.frame # << >>
  /\ \E j \in 1..Len(client_.frame[1].images) :
       LET c == client_.frame[1].images[j].collection_id
       IN /\ c \in client_.released
          /\ c \in DOMAIN buffer_collection_supports_display_
          /\ c \in DOMAIN buffer_collection_pixel_format_
  /\ Renders(calls) # {}

(***************************************************************************)
(* SpecUnsignal: frames of up to two client images on one display, in a    *)
(* build with direct composition and in one with direct composition        *)
(* disabled.                                                               *)
(***************************************************************************)
InitUnsignal == InitBuild({"AttemptDisplayConstraints"}, BOOLEAN)

NextUnsignal ==
  \/ ImportBufferCollectionAction({"none"})
  \/ ImportBufferImageAction(ValidImageMetadatas, FrameImageAnswers)
  \/ AddDisplayAction({1}, {1}, {FALSE}, LayersCreated)
  \/ RenderFrameAction(ImageLists(kNumLayers))
  \/ ControllerSignalsEvent

SpecUnsignal == InitUnsignal /\ [][NextUnsignal]_vars

\* The images whose signal events a RenderFrame trace unsignals.
Unsignaled(cs) == {cs[k].args[1] : k \in CallsOf(cs, "UnsignalImageEvent")}

\* C19: unsignal policy. A frame unsignals image events only if its direct plan succeeded
\* and its CheckConfig succeeded, and then only events of images it names; a frame that
\* falls back to GPU composition (plan rejected, CheckConfig failed, or direct composition
\* disabled) unsignals none, not even of the images its plan had recorded.
UnsignalOnlyOnDirectScanout ==
  [][RenderFrameStep =>
       /\ Unsignaled(calls') \subseteq ImagesOf(client_'.frame)
       /\ Unsignaled(calls') # {} =>
            /\ ~kDisableDisplayComposition
            /\ ~FellBackToGpu(calls')
            /\ \E k \in CallsOf(calls', "CheckConfig") : calls'[k].args[1]
            /\ CallsOf(calls', "OnDirectScanoutFrame") # {}
       /\ (FellBackToGpu(calls') \/ kDisableDisplayComposition) =>
            /\ Unsignaled(calls') = {}
            /\ \A id \in DOMAIN image_event_map_' :
                 image_event_map_'[id].signal_event =
                   IF id \in DOMAIN image_event_map_
                   THEN image_event_map_[id].signal_event
                   ELSE TRUE]_vars

\* A frame of two images fell back to the renderer because its second image was in use;
\* the event of its first image, which the plan had recorded, is still signaled.
UnsignalOnlyOnDirectScanoutWitness ==
  /\ client_.frame # << >>
  /\ Len(client_.frame[1].images) = 2
  /\ LET a == client_.frame[1].images[1].identifier
         b == client_.frame[1].images[2].identifier
     IN /\ a # b
        /\ {a, b} \subseteq DOMAIN image_event_map_
        /\ image_event_map_[a].signal_event
        /\ ~image_event_map_[b].signal_event
        /\ DisplaySupported(client_.frame[1].images[1].collection_id)
  /\ Renders(calls) # {}

\* C20: every RenderFrame that succeeds, by direct scanout or by GPU composition, calls
\* ApplyConfig exactly once and appends exactly one entry to pending_apply_configs_,
\* carrying the stamp that ApplyConfig returned and the frame number of the call; no
\* other operation appends to the FIFO.
OneApplyAndOneEntryPerFrame ==
  [][/\ (RenderFrameStep /\ ~GpuFallbackFailed) =>
          /\ Cardinality(CallsOf(calls', "ApplyConfig")) = 1
          /\ \A k \in CallsOf(calls', "ApplyConfig") :
               /\ calls'[k].args[1] = display_controller_'.stamp
               /\ pending_apply_configs_' =
                    Append(pending_apply_configs_,
                           [config_stamp |-> calls'[k].args[1],
                            frame_number |-> client_.next_frame_number])
     /\ ~RenderFrameStep =>
          \E n \in 0..Len(pending_apply_configs_) :
            pending_apply_configs_' =
              SubSeq(pending_apply_configs_, n + 1, Len(pending_apply_configs_))]_vars

\* A direct-scanout frame and a GPU-composited frame are both in the FIFO, the later one
\* just applied.
OneApplyAndOneEntryPerFrameWitness ==
  /\ Len(pending_apply_configs_) = 2
  /\ {registered[k].path : k \in 1..Len(registered)} = {"direct", "gpu"}
  /\ CallsOf(calls, "ApplyConfig") # {}
  /\ pending_apply_configs_[2].config_stamp = display_controller_.stamp

(***************************************************************************)
(* SpecThreads: the vsync callback runs on another thread than             *)
(* RenderFrame, so the statements of OnVsync interleave with line 789.     *)
(***************************************************************************)
NextThreads ==
  \/ AddDisplayAction({1}, {1}, {FALSE}, LayersCreated)
  \/ RenderFrameUntilApplyAction(SolidColorLists(1))
  \/ RenderFramePushBackAction
  \/ OnVsyncEnterAction(Stamps)
  \/ OnVsyncFindAction
  \/ OnVsyncDrainAction
  \/ OnVsyncFinishAction
  \/ ControllerSignalsEvent

SpecThreads == Init /\ [][NextThreads]_vars

\* C21: vsync handling is serialized with frame submission. The push_back of RenderFrame
\* onto pending_apply_configs_ never happens while another thread is inside OnVsync,
\* between its search of the FIFO and its update of last_presented_config_stamp_.
VsyncSerializedWithEnqueue ==
  [][(threads_.frame.pc = "push_back" /\ threads_'.frame.pc = "idle")
       => threads_.vsync.pc = "idle"]_vars

(***************************************************************************)
(* SpecLocks: the operations that call the display controller or write the *)
(* registries, on one thread.                                              *)
(***************************************************************************)
NextLocks ==
  \/ ImportBufferCollectionAction({"none"})
  \/ ImportBufferImageAction(ValidImageMetadatas, FrameImageAnswers)
  \/ AddDisplayAction({1}, {1}, {FALSE}, LayersCreated)
  \/ SetColorConversionValuesAction
  \/ SetMinimumRgbAction
  \/ RenderFrameAction(ImageLists(1))

SpecLocks == Init /\ [][NextLocks]_vars

\* The calls to the display controller, and the registries of the compositor.
DisplayControllerCalls ==
  {"SetDisplayLayers", "SetLayerColorConfig", "SetLayerImage", "SetDisplayColorConversion",
   "CheckConfig", "DiscardConfig", "ApplyConfig", "ImportImage2", "SetMinimumRgb"}

Registries ==
  {"buffer_collection_supports_display_", "image_event_map_", "pending_images_in_config_"}

\* C22: every call to the display controller and every write of the display-support map,
\* the image-event map and the list of pending images is made while lock_ is held.
AllUnderLock == unguarded \cap (DisplayControllerCalls \cup Registries) = {}

(***************************************************************************)
(* SpecValidate: imports of images with valid and with invalid metadata.   *)
(***************************************************************************)
NextValidate ==
  \/ ImportBufferCollectionAction({"none"})
  \/ ImportBufferImageAction(ValidImageMetadatas \cup InvalidImageMetadatas, ImageAnswers)
  \/ ReleaseBufferImageAction
  \/ AddDisplayAction({1}, {0, 1}, BOOLEAN, LayersCreated)

SpecValidate == InitBuffers /\ [][NextValidate]_vars

\* What the claim calls an invalid metadata.
InvalidMetadata(metadata) ==
  \/ metadata.identifier = 0
  \/ metadata.collection_id = kInvalidId
  \/ metadata.width = 0
  \/ metadata.height = 0

\* C23: ImportBufferImage validates the metadata before any effect. An import whose metadata
\* has identifier 0, an invalid collection id, width 0 or height 0 returns an error, imports
\* nothing into the renderer or the display controller, and leaves the display-supported
\* state of every collection as it was.
InvalidImportHasNoEffect ==
  [][(client_'.attempt # << >> /\ InvalidMetadata(client_'.attempt[1].metadata))
       => /\ ~client_'.attempt[1].ret
          /\ renderer_' = renderer_
          /\ display_controller_' = display_controller_
          /\ buffer_collection_supports_display_' = buffer_collection_supports_display_
          /\ buffer_collection_pixel_format_' = buffer_collection_pixel_format_
          /\ display_buffer_collection_ptrs_' = display_buffer_collection_ptrs_]_vars

\* An image without rows was refused, of a collection whose first image would have been
\* probed, while the render targets are imported and their collection is display-supported.
InvalidImportHasNoEffectWitness ==
  /\ client_.attempt # << >>
  /\ client_.attempt[1].metadata.height = 0
  /\ ~client_.attempt[1].ret
  /\ client_.attempt[1].metadata.collection_id \in display_buffer_collection_ptrs_
  /\ renderer_.images # {}
  /\ DOMAIN buffer_collection_supports_display_ # {}

(***************************************************************************)
(* SpecLayers: displays whose layers the display controller may fail to    *)
(* create, and frames on them.                                             *)
(***************************************************************************)
NextLayers ==
  \/ AddDisplayAction({1}, {1}, {FALSE}, LayerAnswers)
  \/ RenderFrameAction(SolidColorLists(kNumLayers))
  \/ OnVsyncAction(Stamps)

SpecLayers == Init /\ [][NextLayers]_vars

\* C24: a failure of the display controller to create a layer during AddDisplay is fatal,
\* so no display is left registered with the invalid layer id 0 and no later frame hands
\* layer 0 to the display controller.
NoFrameOnInvalidLayer ==
  \A i \in 1..Len(calls) :
    /\ calls[i].op = "SetLayerColorConfig" => calls[i].args[1] # 0
    /\ calls[i].op = "SetLayerImage" => calls[i].args[1] # 0

(***************************************************************************)
(* SpecConfigs: frames for every added display, and frames for none, with  *)
(* direct composition enabled or disabled by the build.                    *)
(***************************************************************************)
NextConfigs ==
  \/ AddDisplayAction(Displays, {1}, {FALSE}, LayersCreated)
  \/ SetColorConversionValuesAction
  \/ RenderFrameAction(AllDisplayLists(1) \cup {<< >>})

SpecConfigs == InitUnsignal /\ [][NextConfigs]_vars

\* The calls that stage layers or colour conversion in the pending configuration.
StagingCalls ==
  {"SetDisplayLayers", "SetLayerColorConfig", "SetLayerImage", "SetDisplayColorConversion"}

\* The latest of the calls of |cs| at the indices |is|, 0 when there is none.
LatestOf(is) == IF is = {} THEN 0 ELSE CHOOSE i \in is : \A j \in is : j <= i

\* C25: ApplyConfig is called only on a staged configuration that passed CheckConfig. In
\* every RenderFrame, of any number of displays and of none, the last CheckConfig after
\* the last DiscardConfig and before ApplyConfig returned OK, and nothing is staged between
\* that check and the apply.
ApplyOnlyCheckedConfig ==
  \A a \in CallsOf(calls, "ApplyConfig") :
    LET d == LatestOf({i \in CallsOf(calls, "DiscardConfig") : i < a})
        c == LatestOf({i \in CallsOf(calls, "CheckConfig") : d < i /\ i < a})
    IN /\ c # 0
       /\ calls[c].args[1]
       /\ \A i \in (c + 1)..(a - 1) : calls[i].op \notin StagingCalls

\* The same, of the frames that name at least one display.
ApplyOnlyCheckedConfigOfDisplays == client_.frame # << >> => ApplyOnlyCheckedConfig

\* The planner rejects a display of |render_data_list|.  Its verdict on a display does not
\* depend on the displays planned before it: image events change only when a frame commits.
PlannerRejects(render_data_list) ==
  \E i \in 1..Len(render_data_list) : ~SetRenderDataOnDisplay(Self, render_data_list[i]).ret

\* C26: one composition path per frame. In every applied frame either every display of the
\* list is presented by direct scanout and the renderer is never invoked, or every display
\* is GPU-composited and the renderer is invoked exactly once per display; when the planner
\* rejects any one display, all displays of the frame use GPU composition.
OneCompositionPathPerFrame ==
  [][(RenderFrameStep /\ client_'.frames[Len(client_'.frames)].applied)
       => LET render_data_list == client_'.frame
              path == registered'[Len(registered')].path
          IN /\ path = "direct" => Renders(calls') = {}
             /\ path = "gpu" =>
                  \A i \in 1..Len(render_data_list) :
                    Cardinality(RendersOf(calls', render_data_list[i].display_id)) = 1
             /\ PlannerRejects(render_data_list) => path = "gpu"]_vars

\* A frame of two displays was applied: the planner had staged the first display and
\* rejected the second, and the renderer drew both.
OneCompositionPathPerFrameWitness ==
  /\ Len(client_.frame) = 2
  /\ client_.frames[Len(client_.frames)].applied
  /\ \E k \in CallsOf(calls, "SetLayerColorConfig") : k \notin GpuPhase(calls)
  /\ \A k \in CallsOf(calls, "CheckConfig") : k \in GpuPhase(calls)
  /\ \A d \in Displays : Cardinality(RendersOf(calls, d)) = 1

(***************************************************************************)
(* SpecRings: a display with a ring of MaxRenderTargets back-buffers, with *)
(* or without a protected ring, and frames on it.                          *)
(***************************************************************************)
NextRings ==
  \/ AddDisplayAction({1}, {MaxRenderTargets}, BOOLEAN, LayersCreated)
  \/ RenderFrameAction(SolidColorLists(1))
  \/ RendererSignalsFence
  \/ ControllerSignalsEvent

SpecRings == Init /\ [][NextRings]_vars

\* The latest operation was a RenderFrame that was applied as a GPU-composited frame.
GpuFrameApplied ==
  /\ client_.frame # << >>
  /\ client_.frames[Len(client_.frames)].applied
  /\ registered[Len(registered)].path = "gpu"

\* The back-buffers of |display_id| at ring index |slot| (0-based): normal and protected.
BackBuffersAt(display_id, slot) ==
  LET data == display_engine_data_map_[display_id]
  IN {data.render_targets[slot + 1].identifier} \cup
     (IF slot < Len(data.protected_render_targets)
      THEN {data.protected_render_targets[slot + 1].identifier} ELSE {})

\* C27: in a GPU-composited frame the layer list of each visited display is set to exactly
\* its layer 0, and the image of that layer is the back-buffer the renderer drew into in
\* this frame, with the wait_id and signal_id of the frame events at the ring index of that
\* back-buffer, whether it is of the normal or of the protected ring.
GpuFrameShowsDrawnBackBuffer ==
  GpuFrameApplied =>
    \A i \in 1..Len(client_.frame) :
      LET display_id == client_.frame[i].display_id
          data == display_engine_data_map_[display_id]
          layer == data.layers[1]
          k == CHOOSE k \in RendersOf(calls, display_id) : TRUE
          slot == calls[k].args[2]
          event_data == data.frame_event_datas[slot + 1]
      IN /\ RendersOf(calls, display_id) # {}
         /\ display_controller_.applied.layers[display_id].ids = <<layer>>
         /\ calls[k].args[3] \in BackBuffersAt(display_id, slot)
         /\ {calls[j].args :
               j \in {j \in CallsOf(calls, "SetLayerImage") :
                        j > k /\ \A r \in Renders(calls) : ~(k < r /\ r < j)}}
              = {<<layer, calls[k].args[3], event_data.wait_id, event_data.signal_id>>}

\* A GPU-composited frame drew into the second back-buffer of the protected ring.
GpuFrameShowsDrawnBackBufferWitness ==
  /\ GpuFrameApplied
  /\ \E k \in Renders(calls) :
       LET data == display_engine_data_map_[calls[k].args[1]]
       IN /\ calls[k].args[2] = 1
          /\ Len(data.protected_render_targets) = MaxRenderTargets
          /\ calls[k].args[3] = data.protected_render_targets[2].identifier

\* C28: in the GPU fallback both events of the selected slot, wait_event and signal_event,
\* are unsignaled when the renderer is invoked for the slot, and the fence handed to the
\* renderer to signal on completion is the wait_event of that slot.
FencesResetBeforeRender ==
  \A k \in Renders(calls) :
    LET data == display_engine_data_map_[calls[k].args[1]]
        slot == calls[k].args[2]
    IN /\ data.frame_event_datas[slot + 1].fence = <<FALSE, FALSE>>
       /\ data.frame_event_datas[slot + 1].wait_id \in renderer_.fences

\* The renderer is invoked for a slot it drew into before: it had signaled the slot's
\* wait_event, and the display controller had signaled its signal_event.
FencesResetBeforeRenderWitness ==
  /\ CallsOf(calls, "LogInUseBackbuffer") = {}
  /\ \E k \in Renders(calls) :
       LET data == display_engine_data_map_[calls[k].args[1]]
           slot == calls[k].args[2]
       IN /\ data.frame_event_datas[slot + 1].cleared
          /\ data.frame_event_datas[slot + 1].fence = <<FALSE, FALSE>>

\* The cursor of |data| points into its ring.
CursorInRing(data) == data.vmo_count > 0 => (0 <= data.curr_vmo /\ data.curr_vmo < data.vmo_count)

\* C29: ring cursor. For every display with N > 0 back-buffers 0 <= curr_vmo < N in every
\* state; each visit of the GPU fallback to the display uses the slot curr_vmo and then sets
\* curr_vmo to (curr_vmo + 1) mod N, so that N consecutive GPU-composited frames use N
\* distinct slots; every other step, direct-scanout frames and vsyncs among them, leaves
\* curr_vmo as it was.
RingCursorAdvances ==
  [][/\ \A d \in DOMAIN display_engine_data_map_' :
          CursorInRing(display_engine_data_map_'[d])
     /\ \A d \in DOMAIN display_engine_data_map_ :
          LET data == display_engine_data_map_[d]
              visits == IF RenderFrameStep THEN RendersOf(calls', d) ELSE {}
          IN /\ Cardinality(visits) <= 1
             /\ \A k \in visits :
                  /\ calls'[k].args[2] = data.curr_vmo
                  /\ display_engine_data_map_'[d].curr_vmo =
                       (data.curr_vmo + 1) % data.vmo_count
             /\ visits = {} => display_engine_data_map_'[d].curr_vmo = data.curr_vmo]_vars

\* The third GPU-composited frame in a row on a ring of two back-buffers: it drew into
\* slot 0 again, after slots 0 and 1, and the cursor is at 1.
RingCursorAdvancesWitness ==
  /\ GpuFrameApplied
  /\ Len(registered) = 3
  /\ \A i \in 1..3 : registered[i].path = "gpu"
  /\ \E k \in Renders(calls) :
       LET data == display_engine_data_map_[calls[k].args[1]]
       IN data.vmo_count = 2 /\ calls[k].args[2] = 0 /\ data.curr_vmo = 1

\* A direct-scanout frame and a vsync after a GPU-composited frame: the cursor stayed.
RingCursorStaysWitness ==
  /\ Len(registered) = 2
  /\ registered[1].path = "gpu"
  /\ registered[2].path = "direct"
  /\ CallsOf(calls, "OnVsync") # {}
  /\ \E d \in DOMAIN display_engine_data_map_ :
       display_engine_data_map_[d].vmo_count = 2 /\ display_engine_data_map_[d].curr_vmo = 1

\* The planner accepted every display of the frame: the direct configuration was checked.
PlannerAccepted(cs) == \E k \in CallsOf(cs, "CheckConfig") : k \notin GpuPhase(cs)

\* C30: the in-flight fence test applies only to entries with a valid image id. The
\* planner's verdict on a RenderData of solid-colour entries depends only on the index and
\* the rectangle of each entry and on the number of layers, not on the state of any fence
\* or on the frames presented before.
SolidColorVerdictIgnoresFences ==
  [][(/\ RenderFrameStep
      /\ Len(client_'.frame) = 1
      /\ \A j \in 1..Len(client_'.frame[1].images) :
           client_'.frame[1].images[j].identifier = kInvalidImageId)
       => LET data == client_'.frame[1]
          IN PlannerAccepted(calls') <=>
               /\ Len(data.images) <= Len(display_engine_data_map_[data.display_id].layers)
               /\ \A j \in 1..Len(data.images) : ~MisplacedSolidColor(data, j)]_vars

\* The signal ids that the SetLayerImage calls of a RenderFrame trace hand to the controller.
SignalIdsOnLayers(cs) == {cs[k].args[4] : k \in CallsOf(cs, "SetLayerImage")}

\* The events a direct-scanout frame unsignals, those of |ids| at least, were handed to the
\* display controller as the signal_id of a SetLayerImage call of the frame.
UnsignaledAreOnLayers(ids) ==
  CallsOf(calls, "OnDirectScanoutFrame") # {} =>
    \A id \in Unsignaled(calls) \cap ids :
      /\ id \in DOMAIN image_event_map_
      /\ image_event_map_[id].signal_id \in SignalIdsOnLayers(calls)

\* C31: every signal event that a direct-scanout frame unsignals was handed to the display
\* controller as the signal_id of a SetLayerImage call of the same configuration; no event
\* is unsignaled that the controller was not asked to signal.
UnsignaledEventsAreOnLayers == UnsignaledAreOnLayers({kInvalidImageId} \cup 1..MaxImages)

\* The same for the events of client images only (valid image ids).
UnsignaledImageEventsAreOnLayers == UnsignaledAreOnLayers(1..MaxImages)

\* C32: colour conversion is never applied twice. In every applied frame and for every
\* display of it, the renderer did not composite the display's frame with apply_cc = true
\* while a non-identity colour conversion is in effect in the display's hardware.
ColorConversionAppliedOnce ==
  GpuFrameApplied =>
    \A k \in Renders(calls) :
      calls[k].args[4] =>
        display_controller_.applied.cc[calls[k].args[1]] = kDefaultColorConversion

\* The same, for frames in which the renderer applies a non-identity conversion.
ColorConversionMatrixAppliedOnce ==
  (GpuFrameApplied /\ cc_state_machine_.data # kDefaultColorConversion) =>
    \A k \in Renders(calls) :
      calls[k].args[4] =>
        display_controller_.applied.cc[calls[k].args[1]] = kDefaultColorConversion

\* The same, for frames of one display that follow applied frames only.
ColorConversionAppliedOnceOnOneDisplay ==
  (/\ GpuFrameApplied
   /\ Len(client_.frame) = 1
   /\ Cardinality(DOMAIN display_engine_data_map_) = 1
   /\ \A n \in 1..Len(client_.frames) : client_.frames[n].applied) =>
    \A k \in Renders(calls) :
      calls[k].args[4] =>
        display_controller_.applied.cc[calls[k].args[1]] = kDefaultColorConversion

\* The step is a RenderFrame that failed: the frame was dropped.
DroppedFrameStep == RenderFrameStep /\ ~client_'.frames[Len(client_'.frames)].applied

\* The step leaves the ring cursor of every display where it was.
CursorsKept ==
  \A d \in DOMAIN display_engine_data_map_ :
    display_engine_data_map_'[d].curr_vmo = display_engine_data_map_[d].curr_vmo

\* The step leaves both events of every back-buffer of every display as they were.
FrameEventsKept ==
  \A d \in DOMAIN display_engine_data_map_ :
    \A k \in 1..Len(display_engine_data_map_[d].frame_event_datas) :
      LET before == display_engine_data_map_[d].frame_event_datas[k]
          after == display_engine_data_map_'[d].frame_event_datas[k]
      IN /\ after.wait_event = before.wait_event
         /\ after.signal_event = before.signal_event

\* C33: a dropped frame leaves the persistent state unchanged. When RenderFrame fails,
\* the ring cursor of every display, the signaled state of every frame-event fence and
\* the colour-conversion state machine are the same after the call as before it.
DroppedFrameChangesNothing ==
  [][DroppedFrameStep =>
       /\ CursorsKept
       /\ FrameEventsKept
       /\ cc_state_machine_' = cc_state_machine_]_vars

\* The three parts of it, one by one.
DroppedFrameKeepsCursors == [][DroppedFrameStep => CursorsKept]_vars

DroppedFrameKeepsFrameEvents == [][DroppedFrameStep => FrameEventsKept]_vars

DroppedFrameKeepsColorConversion ==
  [][DroppedFrameStep => cc_state_machine_' = cc_state_machine_]_vars

\* A frame is dropped only by a display without back-buffers or by a CheckConfig of the
\* GPU path that fails.
DroppedFrameFellBack == [][DroppedFrameStep => GpuFallbackFailed]_vars

(***************************************************************************)
(* SpecMutex: every operation that takes lock_, on one display: imports    *)
(* and releases of collections and images, AddDisplay, colour conversion,  *)
(* and frames of one client image or one solid colour through the direct   *)
(* and the GPU path.                                                       *)
(***************************************************************************)
NextMutex ==
  \/ ImportBufferCollectionAction({"none", "display"})
  \/ ReleaseBufferCollectionAction
  \/ ImportBufferImageAction(ValidImageMetadatas, FrameImageAnswers)
  \/ ReleaseBufferImageAction
  \/ AddDisplayAction({1}, {1}, {FALSE}, LayersCreated)
  \/ SetColorConversionValuesAction
  \/ RenderFrameAction(ImageLists(1) \cup SolidColorLists(1))

SpecMutex == Init /\ [][NextMutex]_vars

\* C34: no self-deadlock on lock_. No call path of an operation locks the mutex while it
\* holds it, and every operation that locked it has released it when it returns.
NoSelfDeadlock == lock_ = "free"

\* A frame of a client image returned after it had staged the image for direct scanout,
\* fallen back, composited with the GPU and applied; before it an image import had failed
\* or an image was released, and a colour conversion was set.
NoSelfDeadlockWitness ==
  /\ GpuFrameApplied
  /\ \E j \in CallsOf(calls, "SetLayerImage") : j \notin GpuPhase(calls)
  /\ \E k \in CallsOf(calls, "SetLayerImage") : k \in GpuPhase(calls)
  /\ CallsOf(calls, "ApplyConfig") # {}
  /\ Cardinality(DOMAIN client_.images) < client_.next_image_id - 1
  /\ cc_state_machine_.data # kDefaultColorConversion
  /\ lock_ = "free"

(***************************************************************************)
(* SpecOrder: frames of client images and of solid colours on one display, *)
(* with the vsyncs that retire them and the controller's signals.          *)
(***************************************************************************)
NextOrder ==
  \/ ImportBufferCollectionAction({"none"})
  \/ ImportBufferImageAction(ValidImageMetadatas, FrameImageAnswers)
  \/ AddDisplayAction({1}, {1}, {FALSE}, LayersCreated)
  \/ RenderFrameAction(ImageLists(1) \cup SolidColorLists(1))
  \/ OnVsyncAction(Stamps)
  \/ ControllerSignalsEvent

SpecOrder == Init /\ [][NextOrder]_vars

\* The frame numbers the release-fence manager was handed by OnDirectScanoutFrame or
\* OnGpuCompositedFrame.
RegisteredFrameNumbers == {registered[j].frame_number : j \in 1..Len(registered)}

\* C35: ordering within a direct-scanout frame. The signal events of all images of the
\* frame are unsignaled and the frame is handed to the release-fence manager
\* (OnDirectScanoutFrame) before ApplyConfig is called, and the entry that is enqueued
\* carries the stamp ApplyConfig returned and the registered frame number; hence every
\* entry of pending_apply_configs_, and every frame number that OnVsync passes to the
\* release-fence manager, was registered beforehand.
DirectScanoutOrder ==
  /\ \A d \in CallsOf(calls, "OnDirectScanoutFrame") :
       /\ ImagesOf(client_.frame) \subseteq Unsignaled(calls)
       /\ \A id \in ImagesOf(client_.frame) : ~image_event_map_[id].signal_event
       /\ \A u \in CallsOf(calls, "UnsignalImageEvent") : u < d
       /\ CallsOf(calls, "ApplyConfig") # {}
       /\ \A a \in CallsOf(calls, "ApplyConfig") :
            /\ d < a
            /\ pending_apply_configs_ # << >>
            /\ pending_apply_configs_[Len(pending_apply_configs_)] =
                 [config_stamp |-> calls[a].args[1], frame_number |-> calls[d].args[1]]
  /\ \A k \in 1..Len(pending_apply_configs_) :
       pending_apply_configs_[k].frame_number \in RegisteredFrameNumbers
  /\ \A k \in 1..Len(retired) : retired[k].frame_number \in RegisteredFrameNumbers

\* A frame that scans out a client image directly has just been applied, after an earlier
\* direct-scanout frame of a client image was retired by a vsync.
DirectScanoutOrderWitness ==
  /\ CallsOf(calls, "OnDirectScanoutFrame") # {}
  /\ Unsignaled(calls) \cap (1..MaxImages) # {}
  /\ \E k \in 1..Len(retired), j \in 1..Len(registered) :
       /\ registered[j].frame_number = retired[k].frame_number
       /\ registered[j].path = "direct"
       /\ frames[retired[k].frame_number].images # {}

====
